---- MODULE Spec2Model ----
(***************************************************************************)
(* Statement parsing and reconciliation engine of the OCR finance backend. *)
(*                                                                         *)
(* Text is modelled character by character: a string is a sequence of      *)
(* one-character strings.  "~" stands for a non-breaking space (one of the *)
(* SPACE_VARIANTS), "^" for the typographic minus U+2212, "@", "%" and "&" *)
(* for the accented letters of the keyword lists.  Numbers are exact       *)
(* decimals held as integers in units of 1/Scale.                          *)
(***************************************************************************)
EXTENDS Integers, Sequences, FiniteSets, TLC

VARIABLES
    pc,               \* position of the running entry point
    lines,            \* the input line list of the document
    solde_initial_txt,\* opening balance text handed to parse_saphir_transactions
    i,                \* loop index over lines
    fixed,            \* _fix_split_dates: output list
    rows,             \* logical rows built so far
    current,          \* _collect_table_rows: row under construction (None or text)
    pending_prefix,   \* _build_safir_rows: description line kept for the next row
    k,                \* index of the next row of the row pass
    prev_balance,     \* ReconciliationState.previous_balance (prev_solde / prev_balance)
    txs,              \* emitted transactions
    log,              \* per processed row: previous balance seen and the parse result
    txt,              \* amount text under normalization
    out,              \* result of the entry point or of the pure function applied
    header,           \* extract_saphir_bank_statement_data: result of _extract_header
    passes,           \* the local variables of each of two row passes run side by side
    reqs,             \* the local variables of each /extract request being served
    files             \* the files of the working directory of the web application

vars == <<pc, lines, solde_initial_txt, i, fixed, rows, current, pending_prefix,
          k, prev_balance, txs, log, txt, out, header, passes, reqs, files>>

\* the variables of one call of a parser entry point
parser_vars == <<pc, lines, solde_initial_txt, i, fixed, rows, current, pending_prefix,
                 k, prev_balance, txs, log, txt, out, header>>

\* no row passes side by side, no request, an empty working directory
NoRequests == passes = <<>> /\ reqs = <<>> /\ files = {}

\* Python None: for an absent text, number or direction
None == "None"

\* Python None where a record is expected (a failed match, a dropped row)
NoResult == <<>>

\* a number that is present; an optional number is None or Some(n)
Some(n) == <<n>>

Val(x) == x[1]

\* ------------------------------------------------------------------------
\* Characters
\* ------------------------------------------------------------------------
Digit == {"0", "1", "2", "3", "4", "5", "6", "7", "8", "9"}

AlphaLower == <<"a", "b", "c", "d", "e", "f", "g", "h", "i", "j", "k", "l", "m",
                "n", "o", "p", "q", "r", "s", "t", "u", "v", "w", "x", "y", "z">>

AlphaUpper == <<"A", "B", "C", "D", "E", "F", "G", "H", "I", "J", "K", "L", "M",
                "N", "O", "P", "Q", "R", "S", "T", "U", "V", "W", "X", "Y", "Z">>

\* accented lower-case letters: "@" is e-acute, "%" e-grave, "&" e-circumflex
Accented == {"@", "%", "&"}

Letter == {AlphaLower[n] : n \in 1..26} \cup {AlphaUpper[n] : n \in 1..26} \cup Accented

SPACE_VARIANTS == {"~"}

THOUS_SEP_CLASS == {" ", "~", ".", "'"}

At(s, n) == IF n >= 1 /\ n <= Len(s) THEN s[n] ELSE ""

IsDigit(c) == c \in Digit

\* \s of the regular expressions: ASCII space and the Unicode space variants
IsSpace(c) == c \in {" "} \cup SPACE_VARIANTS

\* \w of the regular expressions (for \b)
IsWord(c) == c \in Digit \cup Letter

\* str.lower() on one character
Lower(c) == IF \E n \in 1..26 : AlphaUpper[n] = c
            THEN AlphaLower[CHOOSE n \in 1..26 : AlphaUpper[n] = c]
            ELSE c

LowerStr(s) == [n \in 1..Len(s) |-> Lower(s[n])]

DigitVal(c) == CASE c = "0" -> 0 [] c = "1" -> 1 [] c = "2" -> 2 [] c = "3" -> 3
                 [] c = "4" -> 4 [] c = "5" -> 5 [] c = "6" -> 6 [] c = "7" -> 7
                 [] c = "8" -> 8 [] c = "9" -> 9 [] OTHER -> 0

\* s[a..b-1], empty when b <= a
Slice(s, a, b) == IF b <= a THEN <<>> ELSE SubSeq(s, a, b - 1)

From(s, a) == Slice(s, a, Len(s) + 1)

\* does w occur in s at position n
StartsAt(s, n, w) == /\ n >= 1
                     /\ n + Len(w) - 1 <= Len(s)
                     /\ \A j \in 1..Len(w) : s[n + j - 1] = w[j]

Contains(s, w) == \E n \in 1..(Len(s) + 1) : StartsAt(s, n, w)

RECURSIVE SkipWs(_, _)
SkipWs(s, n) == IF IsSpace(At(s, n)) THEN SkipWs(s, n + 1) ELSE n

RECURSIVE DigitRun(_, _)
DigitRun(s, n) == IF IsDigit(At(s, n)) THEN 1 + DigitRun(s, n + 1) ELSE 0

\* str.strip(): index of the last non-space character
RECURSIVE LastNonWs(_, _)
LastNonWs(s, n) == IF n >= 1 /\ IsSpace(s[n]) THEN LastNonWs(s, n - 1) ELSE n

Strip(s) == Slice(s, SkipWs(s, 1), LastNonWs(s, Len(s)) + 1)

LStrip(s) == From(s, SkipWs(s, 1))

\* str.replace(c, d) for one character
ReplaceChar(s, c, d) == [n \in 1..Len(s) |-> IF s[n] = c THEN d ELSE s[n]]

\* keep the characters of s that belong to S, in order
Keep(s, S) == SelectSeq(s, LAMBDA c : c \in S)

MinOf(S) == CHOOSE x \in S : \A y \in S : x <= y

Count(s, c) == Cardinality({n \in 1..Len(s) : s[n] = c})

\* re.sub(r"\s+", " ", s): the first character of every run of spaces stays, as " "
CollapseWs(s) ==
    LET kept == SelectSeq([n \in 1..Len(s) |-> n],
                          LAMBDA n : ~(IsSpace(s[n]) /\ IsSpace(At(s, n - 1))))
    IN [j \in 1..Len(kept) |-> IF IsSpace(s[kept[j]]) THEN " " ELSE s[kept[j]]]

_norm_spaces(s) == Strip(CollapseWs([n \in 1..Len(s) |->
                       IF s[n] \in SPACE_VARIANTS THEN " " ELSE s[n]]))

\* ------------------------------------------------------------------------
\* Amount normalization (parser_saphir.py)
\* ------------------------------------------------------------------------
\* re.sub(r"(XAF|FCFA)\b", "", t, flags=re.I)
\* (XAF|FCFA)\b at n: the end of the match, 0 when there is none
CurrencyWordAt(s, n) ==
    LET low == LowerStr(s)
        e   == IF StartsAt(low, n, <<"x", "a", "f">>) THEN n + 3
               ELSE IF StartsAt(low, n, <<"f", "c", "f", "a">>) THEN n + 4 ELSE 0
    IN IF e # 0 /\ ~IsWord(At(s, e)) THEN e ELSE 0

RECURSIVE RemoveCurrencyFrom(_, _)
RemoveCurrencyFrom(s, n) ==
    LET S == {j \in n..Len(s) : CurrencyWordAt(s, j) # 0}
    IN IF S = {} THEN From(s, n)
       ELSE Slice(s, n, MinOf(S)) \o RemoveCurrencyFrom(s, CurrencyWordAt(s, MinOf(S)))

RemoveCurrency(s) == RemoveCurrencyFrom(s, 1)

\* the three sign rules of _strip_currency_and_sign, in source order
StripParens(ts) ==
    IF Len(ts[1]) >= 1 /\ Head(ts[1]) = "(" /\ ts[1][Len(ts[1])] = ")"
    THEN <<Strip(Slice(ts[1], 2, Len(ts[1]))), -1>>
    ELSE ts

StripTrailingMinus(ts) ==
    IF Len(ts[1]) >= 1 /\ ts[1][Len(ts[1])] = "-" /\ At(LStrip(ts[1]), 1) # "-"
    THEN <<Strip(Slice(ts[1], 1, Len(ts[1]))), -1>>
    ELSE ts

StripLeadingMinus(ts) ==
    IF At(LStrip(ts[1]), 1) = "-"
    THEN <<Strip(Tail(LStrip(ts[1]))), ts[2] * (-1)>>
    ELSE ts

_strip_currency_and_sign(t) ==
    LET t0 == Strip(RemoveCurrency(ReplaceChar(Strip(t), "^", "-")))
    IN StripLeadingMinus(StripTrailingMinus(StripParens(<<t0, 1>>)))

\* s.replace(c, "") for one character
Remove(s, c) == SelectSeq(s, LAMBDA d : d # c)

\* the separator rules of _norm_amount_txt (lines 62-68)
Separators(raw) ==
    IF Count(raw, ".") > 0 /\ Count(raw, ",") > 0
    THEN ReplaceChar(Remove(raw, "."), ",", ".")
    ELSE IF Count(raw, ",") > 0 THEN ReplaceChar(raw, ",", ".")
    ELSE IF Count(raw, ".") > 1 THEN Remove(raw, ".")
    ELSE raw

_norm_amount_txt(t) ==
    LET rs   == _strip_currency_and_sign(t)
        raw0 == Remove([n \in 1..Len(rs[1]) |->
                          IF rs[1][n] \in SPACE_VARIANTS THEN " " ELSE rs[1][n]], " ")
        raw  == Keep(Separators(raw0), Digit \cup {"."})
    IN IF rs[2] < 0 /\ raw # <<>> THEN <<"-">> \o raw ELSE raw

\* ------------------------------------------------------------------------
\* AMOUNT_RE (parser_saphir.py): finditer with the regex engine's priorities
\* ------------------------------------------------------------------------
\* (?:[.,]\d{2})
HasDec(s, e) == At(s, e) \in {".", ","} /\ IsDigit(At(s, e + 1)) /\ IsDigit(At(s, e + 2))

\* greedy (?:SEP\d{3})+ : the largest number of groups that can follow position q
RECURSIVE ThousGroups(_, _, _)
ThousGroups(s, q, Sep) ==
    IF At(s, q) \in Sep /\ IsDigit(At(s, q + 1))
       /\ IsDigit(At(s, q + 2)) /\ IsDigit(At(s, q + 3))
    THEN 1 + ThousGroups(s, q + 4, Sep) ELSE 0

\* ends of \d{1,3}(?:SEP\d{3})+(?:[.,]\d{2})? for a head ending before q, most
\* groups first, with the decimals before without
RECURSIVE GroupCands(_, _, _)
GroupCands(s, q, g) ==
    IF g < 1 THEN <<>>
    ELSE LET e == q + 4 * g
         IN (IF HasDec(s, e) THEN <<e + 3, e>> ELSE <<e>>) \o GroupCands(s, q, g - 1)

HeadCands(s, p, n, Sep) ==
    IF n <= DigitRun(s, p) THEN GroupCands(s, p + n, ThousGroups(s, p + n, Sep)) ELSE <<>>

\* \d{4,}(?:[.,]\d{2})? : a shorter run is followed by a digit and always fails
PlainCands(s, p) ==
    LET r == DigitRun(s, p)
    IN IF r >= 4 THEN (IF HasDec(s, p + r) THEN <<p + r + 3, p + r>> ELSE <<p + r>>)
       ELSE <<>>

\* [\-−]?\s*\d{1,3}[.,]\d{2}
SmallDecCands(s, p) ==
    LET r == DigitRun(s, p)
    IN IF r >= 1 /\ r <= 3 /\ HasDec(s, p + r) THEN <<p + r + 3>> ELSE <<>>

\* \(\s*\d{1,3}(?:SEP\d{3})+\s*\)
RECURSIVE ParenGroupCands(_, _, _)
ParenGroupCands(s, q, g) ==
    IF g < 1 THEN <<>>
    ELSE LET c == SkipWs(s, q + 4 * g)
         IN (IF At(s, c) = ")" THEN <<c + 1>> ELSE <<>>) \o ParenGroupCands(s, q, g - 1)

ParenHeadCands(s, p, n) ==
    IF n <= DigitRun(s, p)
    THEN ParenGroupCands(s, p + n, ThousGroups(s, p + n, THOUS_SEP_CLASS)) ELSE <<>>

\* \(\s*\d+[.,]\d{2}\s*\)
ParenDecCands(s, p) ==
    LET r == DigitRun(s, p)
        c == SkipWs(s, p + r + 3)
    IN IF r >= 1 /\ HasDec(s, p + r) /\ At(s, c) = ")" THEN <<c + 1>> ELSE <<>>

\* candidate ends of group 1 for a match starting at n, in the order the
\* backtracking engine tries them
Group1Cands(s, n) ==
    LET p == SkipWs(s, IF At(s, n) \in {"-", "^"} THEN n + 1 ELSE n)
        q == SkipWs(s, n + 1)
    IN (IF IsDigit(At(s, p))
        THEN HeadCands(s, p, 3, THOUS_SEP_CLASS) \o HeadCands(s, p, 2, THOUS_SEP_CLASS)
             \o HeadCands(s, p, 1, THOUS_SEP_CLASS)
             \o PlainCands(s, p) \o SmallDecCands(s, p)
        ELSE <<>>)
       \o
       (IF At(s, n) = "("
        THEN ParenHeadCands(s, q, 3) \o ParenHeadCands(s, q, 2) \o ParenHeadCands(s, q, 1)
             \o ParenDecCands(s, q)
        ELSE <<>>)

\* (?:\s*(?:XAF|FCFA))? : end of the currency suffix after e, 0 when there is none
CurrencyEnd(s, e) ==
    LET c   == SkipWs(s, e)
        low == LowerStr(s)
    IN IF StartsAt(low, c, <<"x", "a", "f">>) THEN c + 3
       ELSE IF StartsAt(low, c, <<"f", "c", "f", "a">>) THEN c + 4 ELSE 0

\* end of the whole match for a group 1 ending at e, 0 when (?!\d) rejects it
AcceptEnd(s, e) ==
    LET c == CurrencyEnd(s, e)
    IN IF c # 0 /\ ~IsDigit(At(s, c)) THEN c
       ELSE IF ~IsDigit(At(s, e)) THEN e ELSE 0

RECURSIVE FirstAccepted(_, _)
FirstAccepted(s, cands) ==
    IF cands = <<>> THEN <<0, 0>>
    ELSE IF AcceptEnd(s, Head(cands)) # 0 THEN <<Head(cands), AcceptEnd(s, Head(cands))>>
    ELSE FirstAccepted(s, Tail(cands))

\* match of AMOUNT_RE at position n: <<end of group 1, end of match>>, <<0, 0>> if none
AmountMatchAt(s, n) ==
    IF IsDigit(At(s, n - 1)) THEN <<0, 0>> ELSE FirstAccepted(s, Group1Cands(s, n))

\* AMOUNT_RE.finditer(s): the matches from position n on, as spans [s, e) of group 1
RECURSIVE AmountFindIter(_, _)
AmountFindIter(s, n) ==
    LET S == {j \in n..Len(s) : AmountMatchAt(s, j)[1] # 0}
        b == MinOf(S)
        m == AmountMatchAt(s, b)
    IN IF S = {} THEN <<>>
       ELSE <<[s |-> b, e |-> m[1], text |-> Slice(s, b, m[1])]>> \o AmountFindIter(s, m[2])

AMOUNT_RE(s) == AmountFindIter(s, 1)

\* ------------------------------------------------------------------------
\* Dates (parser_saphir.py)
\* ------------------------------------------------------------------------
\* (?:0?[1-9]|[12][0-9]|3[01]) as two characters
ValidDay2(a, b) == \/ a = "0" /\ b \in Digit \ {"0"}
                   \/ a \in {"1", "2"} /\ IsDigit(b)
                   \/ a = "3" /\ b \in {"0", "1"}

\* (?:0?[1-9]|1[0-2]) as two characters
ValidMonth2(a, b) == \/ a = "0" /\ b \in Digit \ {"0"}
                     \/ a = "1" /\ b \in {"0", "1", "2"}

\* day and "/" at n: position after the "/", 0 when there is none
DayEnd(s, n) ==
    IF At(s, n) \in Digit \ {"0"} /\ At(s, n + 1) = "/" THEN n + 2
    ELSE IF ValidDay2(At(s, n), At(s, n + 1)) /\ At(s, n + 2) = "/" THEN n + 3
    ELSE 0

MonthEnd(s, n) ==
    IF At(s, n) \in Digit \ {"0"} /\ At(s, n + 1) = "/" THEN n + 2
    ELSE IF ValidMonth2(At(s, n), At(s, n + 1)) /\ At(s, n + 2) = "/" THEN n + 3
    ELSE 0

DayMonthEnd(s, n) == IF DayEnd(s, n) = 0 THEN 0 ELSE MonthEnd(s, DayEnd(s, n))

\* DATE_RE at n with nothing required after it: the year alternative \d{2}
\* comes first, so an unanchored match always stops after two year digits
DATE_RE(s, n) ==
    LET y == DayMonthEnd(s, n)
    IN IF y # 0 /\ IsDigit(At(s, y)) /\ IsDigit(At(s, y + 1)) THEN y + 2 ELSE 0

\* DATE_RE at n followed by \s
DateThenSpace(s, n) ==
    LET y == DayMonthEnd(s, n)
        r == DigitRun(s, y)
    IN IF y # 0 /\ r >= 2 /\ IsSpace(At(s, y + 2)) THEN y + 2
       ELSE IF y # 0 /\ r >= 4 /\ IsSpace(At(s, y + 4)) THEN y + 4
       ELSE 0

\* DATE_RE at n followed by \b
DateThenBoundary(s, n) ==
    LET y == DayMonthEnd(s, n)
        r == DigitRun(s, y)
    IN IF y # 0 /\ r >= 2 /\ ~IsWord(At(s, y + 2)) THEN y + 2
       ELSE IF y # 0 /\ r >= 4 /\ ~IsWord(At(s, y + 4)) THEN y + 4
       ELSE 0

\* DATE_LINE_RE.match(row): the groups (date, date_val, tail), NoResult when no match
DATE_LINE_RE(row) ==
    LET p1 == SkipWs(row, 1)
        e1 == DateThenSpace(row, p1)
        p2 == SkipWs(row, e1)
        e2 == DateThenSpace(row, p2)
        t  == SkipWs(row, e2)
    IN IF e1 = 0 \/ e2 = 0 THEN NoResult
       ELSE IF t <= Len(row)
            THEN [date |-> Slice(row, p1, e1), date_val |-> Slice(row, p2, e2),
                  tail |-> From(row, t)]
       ELSE IF t - e2 >= 2
            THEN [date |-> Slice(row, p1, e1), date_val |-> Slice(row, p2, e2),
                  tail |-> From(row, Len(row))]
       ELSE NoResult

\* re.sub(DATE_RE, "", s)
RECURSIVE RemoveDates(_, _)
RemoveDates(s, n) ==
    LET S == {j \in n..Len(s) : DATE_RE(s, j) # 0}
    IN IF S = {} THEN From(s, n)
       ELSE Slice(s, n, MinOf(S)) \o RemoveDates(s, DATE_RE(s, MinOf(S)))

\* ------------------------------------------------------------------------
\* _fix_split_dates (parser_saphir.py)
\* ------------------------------------------------------------------------
RECURSIVE DigitRunBack(_, _)
DigitRunBack(s, n) == IF IsDigit(At(s, n)) THEN 1 + DigitRunBack(s, n - 1) ELSE 0

Min(a, b) == IF a <= b THEN a ELSE b

\* (\b\d{1,2}/\d{1,2})\s*/\s*(\d{2,4}\b) at n:
\* <<end of group 1, start of group 2, end of match>>, zeros when no match
SplitDateAt(s, n) ==
    LET d  == DigitRun(s, n)
        m  == DigitRun(s, n + d + 1)
        g1 == n + d + 1 + m
        sl == SkipWs(s, g1)
        y  == SkipWs(s, sl + 1)
        r  == DigitRun(s, y)
    IN IF /\ ~IsWord(At(s, n - 1))
          /\ d \in {1, 2} /\ At(s, n + d) = "/" /\ m \in {1, 2}
          /\ At(s, sl) = "/"
          /\ r \in 2..4 /\ ~IsWord(At(s, y + r))
       THEN <<g1, y, y + r>> ELSE <<0, 0, 0>>

\* cas 1: re.sub(r"(\b\d{1,2}/\d{1,2})\s*/\s*(\d{2,4}\b)", r"\1/\2", cur)
RECURSIVE JoinSameLine(_, _)
JoinSameLine(s, n) ==
    LET S == {j \in n..Len(s) : SplitDateAt(s, j)[3] # 0}
        m == SplitDateAt(s, MinOf(S))
    IN IF S = {} THEN From(s, n)
       ELSE Slice(s, n, m[1]) \o <<"/">> \o Slice(s, m[2], m[3]) \o JoinSameLine(s, m[3])

\* re.search(r"\b\d{1,2}/\d{1,2}\s*$", cur)
EndsWithDayMonth(cur) ==
    LET L == LastNonWs(cur, Len(cur))
        m == DigitRunBack(cur, L)
        d == DigitRunBack(cur, L - m - 1)
    IN /\ m \in {1, 2} /\ At(cur, L - m) = "/"
       /\ d \in {1, 2} /\ ~IsWord(At(cur, L - m - 1 - d))

\* re.match(r"^\s*/\s*(\d{2,4})(.*)$", nxt): <<yy, rest>>, None when no match
YearContinuation(nxt) ==
    LET a == SkipWs(nxt, 1)
        y == SkipWs(nxt, a + 1)
        r == DigitRun(nxt, y)
    IN IF At(nxt, a) = "/" /\ r >= 2
       THEN <<Slice(nxt, y, y + Min(4, r)), From(nxt, y + Min(4, r))>>
       ELSE None

\* the iteration that joins the year of the next line and does not skip
\* that line
FixSplitStepNoSkip(ls, n) ==
    LET cur1 == JoinSameLine(_norm_spaces(ls[n]), 1)
        m    == IF EndsWithDayMonth(cur1) /\ n + 1 <= Len(ls)
                THEN YearContinuation(_norm_spaces(ls[n + 1])) ELSE None
        cur2 == Slice(cur1, 1, LastNonWs(cur1, Len(cur1)) + 1) \o <<"/">> \o m[1]
        cur3 == IF Strip(m[2]) # <<>> THEN Strip(cur2 \o <<" ">> \o Strip(m[2])) ELSE cur2
    IN IF m = None THEN [cur |-> cur1, next |-> n + 1]
       ELSE [cur |-> cur3, next |-> n + 1]

\* one iteration of the while loop at index n (1-based): the line appended to
\* fixed and the index of the next iteration
FixSplitStep(ls, n) ==
    LET cur1 == JoinSameLine(_norm_spaces(ls[n]), 1)
        m    == IF EndsWithDayMonth(cur1) /\ n + 1 <= Len(ls)
                THEN YearContinuation(_norm_spaces(ls[n + 1])) ELSE None
        cur2 == Slice(cur1, 1, LastNonWs(cur1, Len(cur1)) + 1) \o <<"/">> \o m[1]
        cur3 == IF Strip(m[2]) # <<>> THEN Strip(cur2 \o <<" ">> \o Strip(m[2])) ELSE cur2
    IN IF m = None THEN [cur |-> cur1, next |-> n + 1]
       ELSE [cur |-> cur3, next |-> n + 2]

RECURSIVE FixSplitLoop(_, _, _)
\* the loop goes on after the iteration st
FixSplitNext(ls, acc, st) == FixSplitLoop(ls, st.next, Append(acc, st.cur))

FixSplitLoop(ls, n, acc) ==
    IF n > Len(ls) THEN acc ELSE FixSplitNext(ls, acc, FixSplitStep(ls, n))

_fix_split_dates(ls) == FixSplitLoop(ls, 1, <<>>)

\* ------------------------------------------------------------------------
\* Numbers: float(text) as an exact decimal in units of 1/Scale (fraction
\* digits beyond the third are dropped; the inputs used carry at most three)
\* ------------------------------------------------------------------------
Scale == 1000

RECURSIVE DigitsVal(_)
DigitsVal(ds) ==
    IF ds = <<>> THEN 0
    ELSE DigitsVal(Slice(ds, 1, Len(ds))) * 10 + DigitVal(ds[Len(ds)])

FirstIndexOf(s, c) == IF Count(s, c) = 0 THEN 0
                      ELSE CHOOSE n \in 1..Len(s) : s[n] = c /\ \A j \in 1..(n - 1) : s[j] # c

\* float(s) for a text of digits, '.' and a leading '-'; None when float() raises
float(s) ==
    LET neg  == At(s, 1) = "-"
        body == IF neg THEN Tail(s) ELSE s
        dot  == FirstIndexOf(body, ".")
        ip   == IF dot = 0 THEN body ELSE Slice(body, 1, dot)
        fp   == IF dot = 0 THEN <<>> ELSE From(body, dot + 1)
        ok   == /\ \A n \in 1..Len(ip) : IsDigit(ip[n])
                /\ \A n \in 1..Len(fp) : IsDigit(fp[n])
                /\ Len(ip) + Len(fp) >= 1
        mag  == DigitsVal(ip) * Scale + DigitsVal(Slice(fp \o <<"0", "0", "0">>, 1, 4))
    IN IF ~ok THEN None ELSE IF neg THEN Some(0 - mag) ELSE Some(mag)

_to_number(t) == float(_norm_amount_txt(t))

\* ------------------------------------------------------------------------
\* _collect_table_rows (parser_saphir.py)
\* ------------------------------------------------------------------------
\* "@" stands for the accented e of "opération"
TableHeaderLine(raw) ==
    LET low == LowerStr(raw)
    IN /\ \/ Contains(low, <<"o", "p", "@", "r", "a", "t", "i", "o", "n">>)
          \/ Contains(low, <<"o", "p", "e", "r", "a", "t", "i", "o", "n">>)
       /\ Contains(low, <<"d", "a", "t", "e">>)
       /\ Contains(low, <<"s", "o", "l", "d", "e">>)

\* start_idx + 1: the 1-based index of the first line after the table header
TableStart(all_lines) ==
    IF \E n \in 1..Len(all_lines) : TableHeaderLine(all_lines[n])
    THEN 1 + CHOOSE n \in 1..Len(all_lines) :
                 /\ TableHeaderLine(all_lines[n])
                 /\ \A j \in 1..(n - 1) : ~TableHeaderLine(all_lines[j])
    ELSE 1

\* re.match(rf"^\s*{DATE_RE}\s+{DATE_RE}\b", line)
IsRowStart(line) ==
    LET e1 == DateThenSpace(line, SkipWs(line, 1))
    IN e1 # 0 /\ DateThenBoundary(line, SkipWs(line, e1)) # 0

\* a continuation line replaces the row under construction
CollectStepOverwrite(raw, rs, cur) ==
    LET line == _norm_spaces(raw)
    IN IF line = <<>> THEN [rows |-> rs, current |-> cur]
       ELSE IF IsRowStart(line)
            THEN [rows |-> IF cur # None THEN Append(rs, cur) ELSE rs, current |-> line]
       ELSE IF cur # None
            THEN [rows |-> rs, current |-> Strip(line)]
       ELSE [rows |-> rs, current |-> cur]

\* one iteration of the for loop: the new (rows, current)
CollectStep(raw, rs, cur) ==
    LET line == _norm_spaces(raw)
    IN IF line = <<>> THEN [rows |-> rs, current |-> cur]
       ELSE IF IsRowStart(line)
            THEN [rows |-> IF cur # None THEN Append(rs, cur) ELSE rs, current |-> line]
       ELSE IF cur # None
            THEN [rows |-> rs, current |-> Strip(cur \o <<" ">> \o line)]
       ELSE [rows |-> rs, current |-> cur]

\* the row under construction left out at the end
CollectFinishDropLast(rs, cur) == rs

\* the tail of the function: the last row under construction is kept
CollectFinish(rs, cur) == IF cur # None THEN Append(rs, cur) ELSE rs

\* ------------------------------------------------------------------------
\* _parse_saphir_row (parser_saphir.py), the statements before the first
\* unconditional return; what follows it in the source never runs
\* ------------------------------------------------------------------------
\* s.replace(w, "") for a non-empty w
RECURSIVE RemoveAllFrom(_, _, _)
RemoveAllFrom(s, n, w) ==
    LET S == {j \in n..Len(s) : StartsAt(s, j, w)}
    IN IF S = {} THEN From(s, n)
       ELSE Slice(s, n, MinOf(S)) \o RemoveAllFrom(s, MinOf(S) + Len(w), w)

RemoveAll(s, w) == RemoveAllFrom(s, 1, w)

RECURSIVE RemoveEach(_, _)
RemoveEach(s, ws) == IF ws = <<>> THEN s ELSE RemoveEach(RemoveAll(s, Head(ws)), Tail(ws))

\* keep the non-empty texts of a sequence
NonEmpty(ts) == SelectSeq(ts, LAMBDA t : t # <<>>)

\* the tail searched for numbers, and the numbers found there
SaphirTail(tail) == Strip(RemoveDates(_norm_spaces(tail), 1))

SaphirNums(tail) ==
    LET ms == AMOUNT_RE(SaphirTail(tail))
    IN NonEmpty([n \in 1..Len(ms) |-> _norm_amount_txt(ms[n].text)])

\* debit, credit, solde from the number list
SaphirColumns(nums) ==
    IF Len(nums) >= 3
    THEN [debit |-> nums[Len(nums) - 2], credit |-> nums[Len(nums) - 1], solde |-> nums[Len(nums)]]
    ELSE IF Len(nums) = 2 THEN [debit |-> nums[1], credit |-> None, solde |-> nums[2]]
    ELSE [debit |-> None, credit |-> None, solde |-> nums[1]]

\* the result for a row that DATE_LINE_RE matches with groups m, whose
\* cleaned tail holds the numbers nums
SaphirMatched(m, tail, nums) ==
    LET col  == SaphirColumns(nums)
        dr   == col.debit # None /\ col.debit # <<"0">>
        cr   == col.credit # None /\ col.credit # <<"0">>
    IN IF nums = <<>> THEN NoResult
       ELSE [date        |-> m.date,
             description |-> Strip(CollapseWs(RemoveEach(tail, nums))),
             montant     |-> IF dr THEN col.debit ELSE IF cr THEN col.credit ELSE None,
             sens        |-> IF dr THEN "Dr" ELSE IF cr THEN "Cr" ELSE None,
             solde       |-> col.solde]

_parse_saphir_row(row, prev) ==
    LET m == DATE_LINE_RE(row)
    IN IF m = NoResult THEN NoResult
       ELSE SaphirMatched(m, SaphirTail(m.tail), SaphirNums(m.tail))

\* ------------------------------------------------------------------------
\* parse_saphir_transactions (parser_saphir.py)
\* ------------------------------------------------------------------------
\* the row pass seeded with zero when the header holds no opening balance
SaphirSeedZero(initial) ==
    IF initial # None /\ initial # <<>> THEN _to_number(initial) ELSE Some(0)

\* prev_balance at the start of the row pass
SaphirSeed(initial) == IF initial # None /\ initial # <<>> THEN _to_number(initial) ELSE None

\* the previous balance advanced only by rows that have an amount
SaphirAdvanceIfAmount(prev, parsed) ==
    IF parsed # NoResult /\ parsed.montant # None /\ parsed.solde # None
       /\ float(parsed.solde) # None
    THEN float(parsed.solde) ELSE prev

\* prev_balance after a row whose parse result is parsed
SaphirAdvance(prev, parsed) ==
    IF parsed # NoResult /\ parsed.solde # None /\ float(parsed.solde) # None
    THEN float(parsed.solde) ELSE prev

SaphirTx(parsed) == [date |-> parsed.date, description |-> parsed.description,
                     montant |-> parsed.montant, sens |-> parsed.sens]

\* the transaction put before the ones emitted so far
SaphirEmitFirst(transactions, parsed) ==
    IF parsed = NoResult THEN transactions ELSE <<SaphirTx(parsed)>> \o transactions

\* txs after a row whose parse result is parsed: "continue", or txs.append
SaphirEmit(transactions, parsed) ==
    IF parsed = NoResult THEN transactions ELSE Append(transactions, SaphirTx(parsed))

\* ------------------------------------------------------------------------
\* parser.py: amounts
\* ------------------------------------------------------------------------
\* [  ] of AMOUNT_REGEX and _AMOUNT_TOKEN
PLAIN_SEP_CLASS == {" ", "~"}

\* \d+(?:[.,]\d{2})? : a shorter run is followed by a digit and always fails
RunCands(s, p) ==
    LET r == DigitRun(s, p)
    IN IF r >= 1 THEN (IF HasDec(s, p + r) THEN <<p + r + 3, p + r>> ELSE <<p + r>>)
       ELSE <<>>

RECURSIVE FirstNotBeforeDigit(_, _)
FirstNotBeforeDigit(s, cands) ==
    IF cands = <<>> THEN 0
    ELSE IF ~IsDigit(At(s, Head(cands))) THEN Head(cands)
    ELSE FirstNotBeforeDigit(s, Tail(cands))

\* match of AMOUNT_REGEX at n: its end, 0 when there is none
AmountRegexAt(s, n) ==
    IF IsDigit(At(s, n - 1)) \/ ~IsDigit(At(s, n)) THEN 0
    ELSE FirstNotBeforeDigit(s, HeadCands(s, n, 3, PLAIN_SEP_CLASS)
                                \o HeadCands(s, n, 2, PLAIN_SEP_CLASS)
                                \o HeadCands(s, n, 1, PLAIN_SEP_CLASS)
                                \o RunCands(s, n))

\* re.finditer(AMOUNT_REGEX, s) from n on: the matched texts
RECURSIVE AmountRegexFrom(_, _)
AmountRegexFrom(s, n) ==
    LET S == {j \in n..Len(s) : AmountRegexAt(s, j) # 0}
        b == MinOf(S)
    IN IF S = {} THEN <<>>
       ELSE <<Slice(s, b, AmountRegexAt(s, b))>> \o AmountRegexFrom(s, AmountRegexAt(s, b))

AMOUNT_REGEX(s) == AmountRegexFrom(s, 1)

\* match of _AMOUNT_TOKEN at n: its end, 0 when there is none; the pattern has
\* no look-around, so the first greedy choice that finds its digits is the match
AmountTokenAt(s, n) ==
    LET a  == IF At(s, n) = "(" THEN n + 1 ELSE n
        p  == IF At(s, a) \in {"+", "-"} THEN a + 1 ELSE a
        h  == IF DigitRun(s, p) >= 3 /\ ThousGroups(s, p + 3, PLAIN_SEP_CLASS) >= 1 THEN 3
              ELSE IF DigitRun(s, p) >= 2 /\ ThousGroups(s, p + 2, PLAIN_SEP_CLASS) >= 1 THEN 2
              ELSE IF ThousGroups(s, p + 1, PLAIN_SEP_CLASS) >= 1 THEN 1 ELSE 0
        e1 == IF h > 0 THEN p + h + 4 * ThousGroups(s, p + h, PLAIN_SEP_CLASS)
              ELSE p + DigitRun(s, p)
        e2 == IF HasDec(s, e1) THEN e1 + 3 ELSE e1
    IN IF ~IsDigit(At(s, p)) THEN 0
       ELSE IF At(s, e2) = ")" THEN e2 + 1 ELSE e2

\* _AMOUNT_TOKEN.finditer(s) from n on: (start, end, text) with end exclusive
RECURSIVE AmountTokenFrom(_, _)
AmountTokenFrom(s, n) ==
    LET S == {j \in n..Len(s) : AmountTokenAt(s, j) # 0}
        b == MinOf(S)
    IN IF S = {} THEN <<>>
       ELSE <<[s |-> b, e |-> AmountTokenAt(s, b), text |-> Slice(s, b, AmountTokenAt(s, b))]>>
            \o AmountTokenFrom(s, AmountTokenAt(s, b))

_AMOUNT_TOKEN(s) == AmountTokenFrom(s, 1)

\* _normalize_amount: the currency words and symbols it deletes hold no digit,
\* '.' or '-', so the final filter on [0-9.-] covers them
_normalize_amount(t) ==
    LET a == Remove(ReplaceChar(Strip(t), "~", " "), " ")
        b == Keep(ReplaceChar(Remove(Remove(a, "("), ")"), ",", "."), Digit \cup {".", "-"})
    IN IF b # <<>> /\ b[Len(b)] = "." THEN Slice(b, 1, Len(b)) ELSE b

_to_float(t) == float(t)

Abs(x) == IF x < 0 THEN 0 - x ELSE x

Max(a, b) == IF a >= b THEN a ELSE b

\* _close_enough on optional numbers: within 2 % of a, or within 5 units
_close_enough(a, b) ==
    IF a = None \/ b = None THEN FALSE
    ELSE IF Val(a) = 0 THEN Abs(Val(b)) <= 1 * Scale
    ELSE \/ Abs(Val(a) - Val(b)) <= Max(1 * Scale, Abs(Val(a))) \div 50
         \/ Abs(Val(a) - Val(b)) <= 5 * Scale

\* re.search(r"solde\s+initial", l, re.I)
HasSoldeInitial(l) ==
    LET low == LowerStr(l)
    IN \E n \in 1..Len(l) :
          /\ StartsAt(low, n, <<"s", "o", "l", "d", "e">>)
          /\ IsSpace(At(low, n + 5))
          /\ StartsAt(low, SkipWs(low, n + 5), <<"i", "n", "i", "t", "i", "a", "l">>)

_find_initial_balance(ls) ==
    LET S == {n \in 1..Len(ls) : HasSoldeInitial(ls[n]) /\ AMOUNT_REGEX(ls[n]) # <<>>}
        am == AMOUNT_REGEX(ls[MinOf(S)])
    IN IF S = {} THEN None ELSE _to_float(_normalize_amount(am[Len(am)]))

\* ------------------------------------------------------------------------
\* _build_safir_rows (parser.py)
\* ------------------------------------------------------------------------
\* \d{2}/\d{2}/\d{4} at n: its end, 0 when there is none
Date10(s, n) ==
    IF /\ IsDigit(At(s, n)) /\ IsDigit(At(s, n + 1)) /\ At(s, n + 2) = "/"
       /\ IsDigit(At(s, n + 3)) /\ IsDigit(At(s, n + 4)) /\ At(s, n + 5) = "/"
       /\ DigitRun(s, n + 6) >= 4
    THEN n + 10 ELSE 0

\* date_line_re.match(line): ^\s*\d{2}/\d{2}/\d{4}\s+\d{2}/\d{2}/\d{4}\b
date_line_re(line) ==
    LET e1 == Date10(line, SkipWs(line, 1))
        p2 == SkipWs(line, e1)
        e2 == Date10(line, p2)
    IN e1 # 0 /\ p2 > e1 /\ e2 # 0 /\ ~IsWord(At(line, e2))

\* index of the first date line after n, Len + 1 when there is none
NextDateLine(ls, n) ==
    LET S == {j \in (n + 1)..Len(ls) : date_line_re(ls[j])}
    IN IF S = {} THEN Len(ls) + 1 ELSE MinOf(S)

\* the inner while loop: the non-empty stripped lines a..b-1 appended to row
RECURSIVE AppendExtras(_, _, _, _)
AppendExtras(row, ls, a, b) ==
    IF a >= b THEN row
    ELSE AppendExtras(IF Strip(ls[a]) # <<>> THEN row \o <<" ">> \o Strip(ls[a]) ELSE row,
                      ls, a + 1, b)

\* the outer while loop without the pending prefix: a row is its row-start
\* line and its continuation lines only
BuildStepNoPrefix(ls, n, rs, pending) ==
    LET line == Strip(ls[n])
        j    == NextDateLine(ls, n)
    IN IF date_line_re(line)
       THEN [i |-> j, rows |-> Append(rs, AppendExtras(line, ls, n + 1, j)),
             pending_prefix |-> <<>>]
       ELSE [i |-> n + 1, rows |-> rs, pending_prefix |-> <<>>]

\* one iteration of the outer while loop at index n (1-based)
BuildStep(ls, n, rs, pending) ==
    LET line == Strip(ls[n])
        row  == IF pending # <<>> THEN line \o <<" ">> \o pending ELSE line
        j    == NextDateLine(ls, n)
    IN IF date_line_re(line)
       THEN [i |-> j, rows |-> Append(rs, AppendExtras(row, ls, n + 1, j)),
             pending_prefix |-> <<>>]
       ELSE [i |-> n + 1, rows |-> rs,
             pending_prefix |-> IF n + 1 <= Len(ls) /\ date_line_re(ls[n + 1])
                                THEN line ELSE pending]

\* ------------------------------------------------------------------------
\* parse_safir_transactions (parser.py): one row
\* ------------------------------------------------------------------------
DEBIT_KEYWORDS == {
    <<"f", "r", "a", "i", "s">>,
    <<"c", "o", "m", "m", "i", "s", "s", "i", "o", "n">>,
    <<"c", "o", "m", "m", ".">>,
    <<"t", "x">>,
    <<"t", "a", "x", "e">>,
    <<"d", "@", "c", "o", "u", "v", "e", "r", "t">>,
    <<"d", "e", "c", "o", "u", "v", "e", "r", "t">>,
    <<"i", "n", "t", "@", "r", "&", "t", "s">>,
    <<"i", "n", "t", "e", "r", "e", "t", "s">>,
    <<"i", "n", "t", "@", "r", "&", "t", "s", " ", "d", "@", "b", "i", "t", "e", "u", "r", "s">>,
    <<"i", "n", "t", "e", "r", "e", "t", "s", " ", "d", "e", "b", "i", "t", "e", "u", "r", "s">>,
    <<"p", "r", "@", "l", "%", "v">>,
    <<"p", "r", "e", "l", "e", "v">>,
    <<"p", "r", "e", "l", "v">>,
    <<"d", "b", "t">>}

CREDIT_KEYWORDS == {
    <<"v", "i", "r", "e", "m", "e", "n", "t">>,
    <<"v", "e", "r", "s", "e", "m", "e", "n", "t">>,
    <<"r", "e", "m", "b", "o", "u", "r", "s", "e", "m", "e", "n", "t">>,
    <<"r", "e", "m", "b">>,
    <<"c", "i", "m", "e">>,
    <<"s", "a", "l", "a", "i", "r", "e">>,
    <<"c", "r", "@", "d", "i", "t">>,
    <<"c", "r", "e", "d", "i", "t">>}

\* row_re.match(row): the groups (date, date_val, tail), NoResult when no match
row_re(row) ==
    LET p1 == SkipWs(row, 1)
        e1 == Date10(row, p1)
        p2 == SkipWs(row, e1)
        e2 == Date10(row, p2)
        t  == SkipWs(row, e2)
    IN IF e1 = 0 \/ p2 = e1 \/ e2 = 0 \/ t = e2 THEN NoResult
       ELSE IF t <= Len(row)
            THEN [date |-> Slice(row, p1, e1), date_val |-> Slice(row, p2, e2),
                  tail |-> From(row, t)]
       ELSE IF t - e2 >= 2
            THEN [date |-> Slice(row, p1, e1), date_val |-> Slice(row, p2, e2),
                  tail |-> From(row, Len(row))]
       ELSE NoResult

\* the tokens that convert to a number: (s, e, txt, norm, val), in start order
SafirTokens(tk) ==
    SelectSeq([n \in 1..Len(tk) |->
                  [s |-> tk[n].s, e |-> tk[n].e, txt |-> tk[n].text,
                   norm |-> _normalize_amount(tk[n].text),
                   val |-> _to_float(_normalize_amount(tk[n].text))]],
              LAMBDA t : t.val # None)

SafirParsed(tail) == SafirTokens(_AMOUNT_TOKEN(tail))

\* index of the candidate closest to delta, the first one among equals
\* (sorted() is stable), taken only if _close_enough; 0 when none is taken
DeltaMatch(parsed, prev) ==
    LET n     == Len(parsed)
        delta == Abs(Val(parsed[n].val) - Val(prev))
        dist(j) == Abs(Val(parsed[j].val) - delta)
        best  == CHOOSE j \in 1..(n - 1) :
                     /\ \A h \in 1..(n - 1) : dist(j) <= dist(h)
                     /\ \A h \in 1..(j - 1) : dist(h) > dist(j)
    IN IF prev = None \/ n < 2 THEN 0
       ELSE IF _close_enough(Some(delta), parsed[best].val) THEN best ELSE 0

\* index in parsed of the token taken as the amount
MontantIndex(parsed, prev) ==
    IF DeltaMatch(parsed, prev) # 0 THEN DeltaMatch(parsed, prev)
    ELSE IF Len(parsed) >= 2 THEN Len(parsed) - 1
    ELSE 1

HasKeyword(low, kws) == \E w \in kws : Contains(low, w)

\* the comparison of the balances turned around
SafirSensSwapped(parsed, prev, tail) ==
    IF prev # None
    THEN (IF Val(parsed[Len(parsed)].val) <= Val(prev) THEN "Cr" ELSE "Dr")
    ELSE IF HasKeyword(LowerStr(tail), CREDIT_KEYWORDS) THEN "Cr"
    ELSE IF HasKeyword(LowerStr(tail), DEBIT_KEYWORDS) THEN "Dr"
    ELSE None

SafirSens(parsed, prev, tail) ==
    IF prev # None
    THEN (IF Val(parsed[Len(parsed)].val) >= Val(prev) THEN "Cr" ELSE "Dr")
    ELSE IF HasKeyword(LowerStr(tail), CREDIT_KEYWORDS) THEN "Cr"
    ELSE IF HasKeyword(LowerStr(tail), DEBIT_KEYWORDS) THEN "Dr"
    ELSE None

\* DATE_REGEX_COMBINED at n: its end, 0 when there is none
DateCombinedAt(s, n) ==
    LET two == IsDigit(At(s, n)) /\ IsDigit(At(s, n + 1))
        d   == IF two /\ At(s, n + 2) = " " THEN 2
               ELSE IF IsDigit(At(s, n)) /\ At(s, n + 1) = " " THEN 1 ELSE 0
        y   == n + d + 5
    IN IF Date10(s, n) # 0 THEN n + 10
       ELSE IF two /\ At(s, n + 2) = "/" /\ IsDigit(At(s, n + 3)) /\ IsDigit(At(s, n + 4))
            THEN n + 5
       ELSE IF /\ d # 0
               /\ IsWord(At(s, n + d + 1)) /\ IsWord(At(s, n + d + 2)) /\ IsWord(At(s, n + d + 3))
               /\ At(s, n + d + 4) = " "
               /\ DigitRun(s, y) >= 2
            THEN y + Min(4, DigitRun(s, y))
       ELSE 0

\* re.sub(DATE_REGEX_COMBINED, "", s)
RECURSIVE RemoveDatesCombined(_, _)
RemoveDatesCombined(s, n) ==
    LET S == {j \in n..Len(s) : DateCombinedAt(s, j) # 0}
    IN IF S = {} THEN From(s, n)
       ELSE Slice(s, n, MinOf(S)) \o RemoveDatesCombined(s, DateCombinedAt(s, MinOf(S)))

COLUMN_LABELS == {<<"d", "@", "b", "i", "t">>, <<"d", "e", "b", "i", "t">>,
                  <<"c", "r", "@", "d", "i", "t">>, <<"c", "r", "e", "d", "i", "t">>,
                  <<"s", "o", "l", "d", "e">>}

\* \b(débit|debit|crédit|credit|solde)\b at n, ignoring case
ColumnLabelAt(s, n) ==
    LET low == LowerStr(s)
        W   == {w \in COLUMN_LABELS : StartsAt(low, n, w) /\ ~IsWord(At(s, n + Len(w)))}
    IN IF ~IsWord(At(s, n - 1)) /\ W # {} THEN n + Len(CHOOSE w \in W : TRUE) ELSE 0

RECURSIVE RemoveColumnLabels(_, _)
RemoveColumnLabels(s, n) ==
    LET S == {j \in n..Len(s) : ColumnLabelAt(s, j) # 0}
    IN IF S = {} THEN From(s, n)
       ELSE Slice(s, n, MinOf(S)) \o RemoveColumnLabels(s, ColumnLabelAt(s, MinOf(S)))

\* str.strip(" :- ")
StripChars(s, C) ==
    LET S == {n \in 1..Len(s) : s[n] \notin C}
    IN IF S = {} THEN <<>>
       ELSE Slice(s, MinOf(S), 1 + CHOOSE n \in S : \A j \in S : j <= n)

\* the tail without the spans of the amount and of the balance (lines 360-369)
CutSpans(tail, ma, so) ==
    LET first  == IF so.s < ma.s THEN so ELSE ma
        second == IF so.s < ma.s THEN ma ELSE so
        part1  == Slice(tail, 1, first.s)
        part2  == Slice(tail, first.e, second.s)
    IN part1 \o part2 \o From(tail, second.e)

SafirDescription(tail, ma, so) ==
    StripChars(CollapseWs(RemoveColumnLabels(
                   RemoveDatesCombined(CutSpans(tail, ma, so), 1), 1)),
               {" ", ":", "-", "~"})

\* the body of the for loop for a row that row_re matches with groups m and
\* whose tail holds the tokens parsed
SafirMatched(m, parsed, prev) ==
    LET so     == parsed[Len(parsed)]
        ma     == parsed[MontantIndex(parsed, prev)]
        desc   == SafirDescription(m.tail, ma, so)
    IN IF parsed = <<>>
       THEN [tx |-> [date |-> m.date,
                     description |-> Strip(CollapseWs(RemoveDatesCombined(m.tail, 1))),
                     montant |-> None, sens |-> None, solde |-> None],
             prev |-> prev, parsed |-> <<>>, montant_span |-> <<>>, solde_span |-> <<>>]
       ELSE [tx |-> [date |-> m.date,
                     description |-> IF desc # <<>> THEN desc ELSE None,
                     montant |-> ma.norm, sens |-> SafirSens(parsed, prev, m.tail),
                     solde |-> so.norm],
             prev |-> so.val,
             parsed |-> [n \in 1..Len(parsed) |-> parsed[n].val],
             montant_span |-> <<ma.s, ma.e>>, solde_span |-> <<so.s, so.e>>]

\* the body of the for loop for one row and the previous balance prev:
\* the transaction appended (NoResult when the row is skipped), the previous
\* balance after the row, and the tokens and spans the row was read with
SafirRow(row, prev) ==
    LET m == row_re(row)
    IN IF m = NoResult
       THEN [tx |-> NoResult, prev |-> prev, parsed |-> <<>>, montant_span |-> <<>>,
             solde_span |-> <<>>]
       ELSE SafirMatched(m, SafirParsed(m.tail), prev)

\* ------------------------------------------------------------------------
\* Detection of the statement family
\* ------------------------------------------------------------------------
\* " ".join(ts)
RECURSIVE JoinBlank(_)
JoinBlank(ts) ==
    IF ts = <<>> THEN <<>>
    ELSE IF Len(ts) = 1 THEN ts[1]
    ELSE ts[1] \o <<" ">> \o JoinBlank(Tail(ts))

\* is_saphir_statement of parser_saphir.py, on a list of lines
is_saphir_statement(ls) ==
    LET joined == LowerStr(JoinBlank(ls))
    IN \/ /\ Contains(joined, <<"e", "x", "t", "r", "a", "i", "t", " ", "d", "e", " ", "c", "o", "m", "p", "t", "e">>)
          /\ Contains(joined, <<"a", "f", "r", "i", "l", "a", "n", "d">>)
       \/ Contains(joined, <<"s", "a", "f", "i", "r", " ", "c", "o", "n", "s", "u", "l", "t", "i", "n", "g", " ", "c", "a", "m", "e", "r", "o", "u", "n">>)
       \/ Contains(joined, <<"s", "a", "p", "h", "i", "r", " ", "c", "o", "n", "s", "u", "l", "t", "i", "n", "g">>)

\* is_safir_statement of parser.py; "@" stands for the accented e
is_safir_statement(ls) ==
    LET joined == LowerStr(JoinBlank(ls))
    IN \/ Contains(joined, <<"s", "a", "f", "i", "r", " ", "c", "o", "n", "s", "u", "l", "t", "i", "n", "g", " ", "c", "a", "m", "e", "r", "o", "u", "n">>)
       \/ /\ Contains(joined, <<"e", "x", "t", "r", "a", "i", "t", " ", "d", "e", " ", "c", "o", "m", "p", "t", "e">>)
          /\ Contains(joined, <<"d", "@", "b", "i", "t", " ", "(", "x", "a", "f", ")">>)

\* ------------------------------------------------------------------------
\* Input documents
\* ------------------------------------------------------------------------
\* largest number of lines of a document after its heading line
MaxLines == 3

\* the sequences of at most n elements of S
SeqUpTo(S, n) == UNION {[1..m -> S] : m \in 0..n}

\* lines of a ledger statement as the OCR hands them over (stripped, not empty)
SaphirLines == {
    \* solde initial 10 000
    <<"s", "o", "l", "d", "e", " ", "i", "n", "i", "t", "i", "a", "l", " ", "1", "0", " ", "0", "0", "0">>,
    \* date operation solde
    <<"d", "a", "t", "e", " ", "o", "p", "e", "r", "a", "t", "i", "o", "n", " ", "s", "o", "l", "d", "e">>,
    \* 1/1/24 2/1/24 vir 2 000 12 000
    <<"1", "/", "1", "/", "2", "4", " ", "2", "/", "1", "/", "2", "4", " ", "v", "i", "r", " ", "2", " ", "0", "0", "0", " ", "1", "2", " ", "0", "0", "0">>,
    \* 3/1/24 3/1/24 frais -500,00 9 500,00
    <<"3", "/", "1", "/", "2", "4", " ", "3", "/", "1", "/", "2", "4", " ", "f", "r", "a", "i", "s", " ", "-", "5", "0", "0", ",", "0", "0", " ", "9", " ", "5", "0", "0", ",", "0", "0">>,
    \* 05/01/2024 05/01/2024 x 2024 15000
    <<"0", "5", "/", "0", "1", "/", "2", "0", "2", "4", " ", "0", "5", "/", "0", "1", "/", "2", "0", "2", "4", " ", "x", " ", "2", "0", "2", "4", " ", "1", "5", "0", "0", "0">>,
    \* 6/1/24 6/1/24 frais
    <<"6", "/", "1", "/", "2", "4", " ", "6", "/", "1", "/", "2", "4", " ", "f", "r", "a", "i", "s">>,
    \* 7/1/24 7/1/24 x 9000
    <<"7", "/", "1", "/", "2", "4", " ", "7", "/", "1", "/", "2", "4", " ", "x", " ", "9", "0", "0", "0">>,
    \* ref 31/12
    <<"r", "e", "f", " ", "3", "1", "/", "1", "2">>,
    \* /24 x
    <<"/", "2", "4", " ", "x">>}

\* lines of a statement for parser.py, whose dates are dd/mm/yyyy
SafirLines == {
    \* solde initial 1 000
    <<"s", "o", "l", "d", "e", " ", "i", "n", "i", "t", "i", "a", "l", " ", "1", " ", "0", "0", "0">>,
    \* pre
    <<"p", "r", "e">>,
    \* 01/01/2024 02/01/2024 frais 50,00 950,00
    <<"0", "1", "/", "0", "1", "/", "2", "0", "2", "4", " ", "0", "2", "/", "0", "1", "/", "2", "0", "2", "4", " ", "f", "r", "a", "i", "s", " ", "5", "0", ",", "0", "0", " ", "9", "5", "0", ",", "0", "0">>,
    \* 01/01/2024 02/01/2024 vir 200,00 1 200,00
    <<"0", "1", "/", "0", "1", "/", "2", "0", "2", "4", " ", "0", "2", "/", "0", "1", "/", "2", "0", "2", "4", " ", "v", "i", "r", " ", "2", "0", "0", ",", "0", "0", " ", "1", " ", "2", "0", "0", ",", "0", "0">>,
    \* 01/01/2024 02/01/2024 frais 850
    <<"0", "1", "/", "0", "1", "/", "2", "0", "2", "4", " ", "0", "2", "/", "0", "1", "/", "2", "0", "2", "4", " ", "f", "r", "a", "i", "s", " ", "8", "5", "0">>,
    \* 01/01/2024 02/01/2024 frais
    <<"0", "1", "/", "0", "1", "/", "2", "0", "2", "4", " ", "0", "2", "/", "0", "1", "/", "2", "0", "2", "4", " ", "f", "r", "a", "i", "s">>,
    \* 01/01/2024 02/01/2024 30,00 4 50 1 030,00
    <<"0", "1", "/", "0", "1", "/", "2", "0", "2", "4", " ", "0", "2", "/", "0", "1", "/", "2", "0", "2", "4", " ", "3", "0", ",", "0", "0", " ", "4", " ", "5", "0", " ", "1", " ", "0", "3", "0", ",", "0", "0">>,
    \* 01/01/2024 02/01/2024 x 500,00 700,00
    <<"0", "1", "/", "0", "1", "/", "2", "0", "2", "4", " ", "0", "2", "/", "0", "1", "/", "2", "0", "2", "4", " ", "x", " ", "5", "0", "0", ",", "0", "0", " ", "7", "0", "0", ",", "0", "0">>}

\* the heading line by which each family is recognized
SaphirHeading == <<"s", "a", "p", "h", "i", "r", " ", "c", "o", "n", "s", "u", "l", "t", "i", "n", "g">>

SafirHeading == <<"s", "a", "f", "i", "r", " ", "c", "o", "n", "s", "u", "l", "t", "i", "n", "g", " ", "c", "a", "m", "e", "r", "o", "u", "n">>

\* the heading line of a statement of another bank
OtherHeading == <<"e", "x", "t", "r", "a", "i", "t", " ", "d", "e", " ", "c", "o", "m", "p", "t", "e">>

\* the documents extract_saphir_bank_statement_data hands to
\* parse_saphir_transactions: is_saphir_statement accepts them
SaphirDocs ==
    {d \in {<<SaphirHeading>> \o b : b \in SeqUpTo(SaphirLines, MaxLines)} :
        is_saphir_statement(d)}

\* the documents extract_saphir_bank_statement_data turns down
OtherDocs ==
    {d \in {<<OtherHeading>> \o b : b \in SeqUpTo(SaphirLines, MaxLines)} :
        ~is_saphir_statement(d)}

\* the documents detect_transactions hands to parse_safir_transactions:
\* is_safir_statement accepts them
SafirDocs ==
    {d \in {<<SafirHeading>> \o b : b \in SeqUpTo(SafirLines, MaxLines)} :
        is_safir_statement(d)}

\* ------------------------------------------------------------------------
\* _extract_header (parser_saphir.py): the opening balance
\* ------------------------------------------------------------------------
\* solde_initial after the line raw, given its value before
HeaderSoldeStep(raw, solde_initial) ==
    LET l  == _norm_spaces(raw)
        ms == AMOUNT_RE(l)
    IN IF Contains(LowerStr(l), <<"s", "o", "l", "d", "e", " ", "i", "n", "i", "t", "i", "a", "l">>)
          /\ ms # <<>>
       THEN _norm_amount_txt(ms[1].text) ELSE solde_initial


\* ------------------------------------------------------------------------
\* _extract_header (parser_saphir.py): holder and account
\* ------------------------------------------------------------------------
\* the labels of the header lines; "@" stands for the accented e
NOM == <<"n", "o", "m", " ", "d", "u", " ", "c", "l", "i", "e", "n", "t">>

LIBELLE == <<"l", "i", "b", "e", "l", "l", "@", " ", "d", "u", " ", "c", "o", "m", "p", "t", "e">>

NUMERO_ACCENT == <<"n", "u", "m", "@", "r", "o", " ", "d", "e", " ", "c", "o", "m", "p", "t", "e">>

NUMERO == <<"n", "u", "m", "e", "r", "o", " ", "d", "e", " ", "c", "o", "m", "p", "t", "e">>

\* the values _extract_header starts from
BANQUE == <<"A", "f", "r", "i", "l", "a", "n", "d", " ", "F", "i", "r", "s", "t", " ", "B", "a", "n", "k">>

TITULAIRE == <<"S", "A", "F", "I", "R", " ", "C", "O", "N", "S", "U", "L", "T", "I", "N", "G", " ", "C", "A", "M", "E", "R", "O", "U", "N">>

COMPTE == <<"0", "0", "0", "0", "2", "-", "0", "8", "2", "3", "7", "5", "2", "1", "0", "0", "1", "-", "0", "9", " ", "X", "A", "F">>

\* l.split(":", 1) has two parts
HasColon(l) == Count(l, ":") > 0

\* parts[1].strip() of l.split(":", 1)
AfterColon(l) == Strip(From(l, FirstIndexOf(l, ":") + 1))

\* titulaire after the line raw, given its value before
HeaderTitulaireStep(raw, titulaire) ==
    LET l   == _norm_spaces(raw)
        low == LowerStr(l)
        t1  == IF Contains(low, NOM) /\ HasColon(l) THEN AfterColon(l) ELSE titulaire
    IN IF t1 = <<>> /\ Contains(low, LIBELLE) /\ HasColon(l)
       THEN AfterColon(l) ELSE t1

\* \bXAF\b at n, whatever the case of its letters
XafWordAt(s, n) == /\ StartsAt(LowerStr(s), n, <<"x", "a", "f">>)
                   /\ ~IsWord(At(s, n - 1))
                   /\ ~IsWord(At(s, n + 3))

\* re.sub(r"\bXAF\b", "", s, flags=re.I)
RECURSIVE RemoveXafFrom(_, _)
RemoveXafFrom(s, n) ==
    LET S == {j \in n..Len(s) : XafWordAt(s, j)}
    IN IF S = {} THEN From(s, n)
       ELSE Slice(s, n, MinOf(S)) \o RemoveXafFrom(s, MinOf(S) + 3)

\* compte after the line raw, given its value before
HeaderCompteStep(raw, compte) ==
    LET l   == _norm_spaces(raw)
        low == LowerStr(l)
    IN IF (Contains(low, NUMERO_ACCENT) \/ Contains(low, NUMERO)) /\ HasColon(l)
       THEN Strip(RemoveXafFrom(AfterColon(l), 1)) ELSE compte

\* the body of the for loop of _extract_header on the line raw
HeaderStep(raw, h) ==
    [banque        |-> h.banque,
     titulaire     |-> HeaderTitulaireStep(raw, h.titulaire),
     compte        |-> HeaderCompteStep(raw, h.compte),
     solde_initial |-> HeaderSoldeStep(raw, h.solde_initial)]

\* the four locals of _extract_header before its loop
HeaderDefaults ==
    [banque        |-> BANQUE,
     titulaire     |-> TITULAIRE,
     compte        |-> COMPTE,
     solde_initial |-> None]

RECURSIVE HeaderLoop(_, _, _)
HeaderLoop(ls, n, h) ==
    IF n > Len(ls) THEN h ELSE HeaderLoop(ls, n + 1, HeaderStep(ls[n], h))

_extract_header(ls) == HeaderLoop(ls, 1, HeaderDefaults)

\* ------------------------------------------------------------------------
\* _extract_period_from_txs and the result of
\* extract_saphir_bank_statement_data (parser_saphir.py)
\* ------------------------------------------------------------------------
\* index of the last "/" of d, 0 when there is none
LastIndexOf(s, c) == IF Count(s, c) = 0 THEN 0
                     ELSE CHOOSE n \in 1..Len(s) : s[n] = c /\ \A j \in (n + 1)..Len(s) : s[j] # c

DigitChar(n) == CHOOSE c \in Digit : DigitVal(c) = n

\* f"20{yy:02d}" for yy = int(part)
Year20(part) ==
    LET yy == DigitsVal(part)
    IN <<"2", "0">> \o (IF yy < 10 THEN <<"0", DigitChar(yy)>>
                        ELSE <<DigitChar(yy \div 10), DigitChar(yy % 10)>>)

\* "/".join(parts) after the two-digit last part of d.split("/") became 20YY
ExpandYear(d) ==
    LET sl == LastIndexOf(d, "/")
    IN IF Len(d) - sl = 2 THEN Slice(d, 1, sl + 1) \o Year20(From(d, sl + 1)) ELSE d

\* the dates list of _extract_period_from_txs
PeriodDates(transactions) ==
    LET dated == SelectSeq(transactions,
                           LAMBDA t : t.date # None /\ t.date # <<>> /\ DATE_RE(t.date, 1) # 0)
    IN [n \in 1..Len(dated) |-> ExpandYear(dated[n].date)]

\* the period read from the last date to the first
PeriodOfReversed(dates) ==
    IF dates = <<>> THEN None
    ELSE dates[Len(dates)] \o <<" ", "-", " ">> \o dates[1]

\* f"{dates[0]} - {dates[-1]}", None for an empty list
PeriodOf(dates) ==
    IF dates = <<>> THEN None
    ELSE dates[1] \o <<" ", "-", " ">> \o dates[Len(dates)]

_extract_period_from_txs(transactions) == PeriodOf(PeriodDates(transactions))

\* the empty result with the bank of the family filled in
NotSaphirResultWithBank ==
    [banque |-> BANQUE, compte |-> None, titulaire |-> None, periode |-> None,
     transactions |-> <<>>, _debug |-> [reason |-> "not_saphir"]]

\* the structured empty result for a document of another family
NotSaphirResult ==
    [banque |-> None, compte |-> None, titulaire |-> None, periode |-> None,
     transactions |-> <<>>, _debug |-> [reason |-> "not_saphir"]]

\* the result assembled from the header and the transactions
SaphirResult(h, transactions) ==
    [banque |-> h.banque, compte |-> h.compte, titulaire |-> h.titulaire,
     periode |-> _extract_period_from_txs(transactions),
     transactions |-> transactions,
     _debug |-> [solde_initial |-> h.solde_initial, tx_count |-> Len(transactions)]]

\* ------------------------------------------------------------------------
\* The two entry points as state machines
\* ------------------------------------------------------------------------
Idle == /\ solde_initial_txt = None /\ i = 0 /\ fixed = <<>> /\ rows = <<>>
        /\ current = None /\ pending_prefix = <<>> /\ k = 0 /\ prev_balance = None
        /\ txs = <<>> /\ log = <<>> /\ txt = <<>> /\ out = None /\ header = None

\* extract_saphir_bank_statement_data is called on the lines of a document
InitSaphir == pc = "saphir" /\ lines \in SaphirDocs \cup OtherDocs /\ Idle /\ NoRequests

\* detect_transactions calls parse_safir_transactions on a document
InitSafir == pc = "safir" /\ lines \in SafirDocs /\ Idle /\ NoRequests

Init == InitSaphir \/ InitSafir

\* header = _extract_header(lines); parse_saphir_transactions(lines, solde_initial)
ExtractHeader ==
    /\ pc = "saphir" /\ is_saphir_statement(lines)
    /\ \E h \in {_extract_header(lines)} :
           header' = h /\ solde_initial_txt' = h.solde_initial
    /\ i' = 1
    /\ pc' = "fix"
    /\ UNCHANGED <<lines, fixed, rows, current, pending_prefix, k, prev_balance, txs,
                   log, txt, out, passes, reqs, files>>

\* the document is of another family: the structured empty result
RejectNotSaphir ==
    /\ pc = "saphir" /\ ~is_saphir_statement(lines)
    /\ out' = NotSaphirResult
    /\ pc' = "result"
    /\ UNCHANGED <<lines, solde_initial_txt, i, fixed, rows, current, pending_prefix, k,
                   prev_balance, txs, log, txt, header, passes, reqs, files>>

\* one iteration of the while loop of _fix_split_dates
FixStep ==
    /\ pc = "fix" /\ i <= Len(lines)
    /\ \E step \in {FixSplitStep(lines, i)} :
           fixed' = Append(fixed, step.cur) /\ i' = step.next
    /\ UNCHANGED <<pc, lines, solde_initial_txt, rows, current, pending_prefix, k,
                   prev_balance, txs, log, txt, out, header, passes, reqs, files>>

\* _fix_split_dates returns; _collect_table_rows looks for the table header
FindTableHeader ==
    /\ pc = "fix" /\ i > Len(lines)
    /\ i' = TableStart(fixed)
    /\ rows' = <<>>
    /\ current' = None
    /\ pc' = "collect"
    /\ UNCHANGED <<lines, solde_initial_txt, fixed, pending_prefix, k, prev_balance, txs,
                   log, txt, out, header, passes, reqs, files>>

\* one iteration of the for loop of _collect_table_rows
CollectLine ==
    /\ pc = "collect" /\ i <= Len(fixed)
    /\ \E step \in {CollectStep(fixed[i], rows, current)} :
           rows' = step.rows /\ current' = step.current
    /\ i' = i + 1
    /\ UNCHANGED <<pc, lines, solde_initial_txt, fixed, pending_prefix, k, prev_balance,
                   txs, log, txt, out, header, passes, reqs, files>>

\* _collect_table_rows returns; the row pass starts from the opening balance
StartRowPass ==
    /\ pc = "collect" /\ i > Len(fixed)
    /\ rows' = CollectFinish(rows, current)
    /\ prev_balance' = SaphirSeed(solde_initial_txt)
    /\ k' = 1
    /\ pc' = "rows"
    /\ UNCHANGED <<lines, solde_initial_txt, i, fixed, current, pending_prefix, txs, log,
                   txt, out, header, passes, reqs, files>>

\* one iteration of the for loop of parse_saphir_transactions
ParseRow ==
    /\ pc = "rows" /\ k <= Len(rows)
    /\ \E parsed \in {_parse_saphir_row(rows[k], prev_balance)},
          m \in {DATE_LINE_RE(rows[k])} :
          /\ prev_balance' = SaphirAdvance(prev_balance, parsed)
          /\ txs' = SaphirEmit(txs, parsed)
          /\ log' = Append(log, [parser |-> "parser_saphir", row |-> rows[k],
                                 prev |-> prev_balance, result |-> parsed,
                                 nums |-> IF m = NoResult THEN <<>>
                                          ELSE SaphirNums(m.tail)])
    /\ k' = k + 1
    /\ UNCHANGED <<pc, lines, solde_initial_txt, i, fixed, rows, current, pending_prefix,
                   txt, out, header, passes, reqs, files>>

\* parse_saphir_transactions returns txs
ReturnTxs ==
    /\ pc = "rows" /\ k > Len(rows)
    /\ pc' = "done"
    /\ UNCHANGED <<lines, solde_initial_txt, i, fixed, rows, current, pending_prefix, k,
                   prev_balance, txs, log, txt, out, header, passes, reqs, files>>

\* periode = _extract_period_from_txs(txs); the result is assembled
AssembleResult ==
    /\ pc = "done"
    /\ out' = SaphirResult(header, txs)
    /\ pc' = "result"
    /\ UNCHANGED <<lines, solde_initial_txt, i, fixed, rows, current, pending_prefix, k,
                   prev_balance, txs, log, txt, header, passes, reqs, files>>

\* prev_solde = _find_initial_balance(lines); _build_safir_rows starts
FindInitialBalance ==
    /\ pc = "safir"
    /\ prev_balance' = _find_initial_balance(lines)
    /\ i' = 1
    /\ rows' = <<>>
    /\ pending_prefix' = <<>>
    /\ pc' = "build"
    /\ UNCHANGED <<lines, solde_initial_txt, fixed, current, k, txs, log, txt, out, header,
                   passes, reqs, files>>

\* one iteration of the outer while loop of _build_safir_rows
BuildRow ==
    /\ pc = "build" /\ i <= Len(lines)
    /\ \E step \in {BuildStep(lines, i, rows, pending_prefix)} :
           /\ i' = step.i
           /\ rows' = step.rows
           /\ pending_prefix' = step.pending_prefix
    /\ UNCHANGED <<pc, lines, solde_initial_txt, fixed, current, k, prev_balance, txs,
                   log, txt, out, header, passes, reqs, files>>

\* _build_safir_rows returns; the row pass starts
StartSafirPass ==
    /\ pc = "build" /\ i > Len(lines)
    /\ k' = 1
    /\ pc' = "safir_rows"
    /\ UNCHANGED <<lines, solde_initial_txt, i, fixed, rows, current, pending_prefix,
                   prev_balance, txs, log, txt, out, header, passes, reqs, files>>

\* one iteration of the for loop of parse_safir_transactions
ParseSafirRow ==
    /\ pc = "safir_rows" /\ k <= Len(rows)
    /\ \E r \in {SafirRow(rows[k], prev_balance)} :
          /\ prev_balance' = r.prev
          /\ txs' = IF r.tx = NoResult THEN txs ELSE Append(txs, r.tx)
          /\ log' = Append(log, [parser |-> "parser", row |-> rows[k],
                                 prev |-> prev_balance, result |-> r.tx,
                                 parsed |-> r.parsed, montant_span |-> r.montant_span,
                                 solde_span |-> r.solde_span])
    /\ k' = k + 1
    /\ UNCHANGED <<pc, lines, solde_initial_txt, i, fixed, rows, current, pending_prefix,
                   txt, out, header, passes, reqs, files>>

\* parse_safir_transactions returns transactions
ReturnTransactions ==
    /\ pc = "safir_rows" /\ k > Len(rows)
    /\ pc' = "safir_done"
    /\ UNCHANGED <<lines, solde_initial_txt, i, fixed, rows, current, pending_prefix, k,
                   prev_balance, txs, log, txt, out, header, passes, reqs, files>>

Next == \/ ExtractHeader \/ RejectNotSaphir \/ AssembleResult \/ FixStep \/ FindTableHeader \/ CollectLine \/ StartRowPass
        \/ ParseRow \/ ReturnTxs
        \/ FindInitialBalance \/ BuildRow \/ StartSafirPass \/ ParseSafirRow
        \/ ReturnTransactions

Spec == Init /\ [][Next]_vars

\* ------------------------------------------------------------------------
\* _norm_amount_txt applied to one amount text
\* ------------------------------------------------------------------------
\* largest number of three-digit groups of an amount text
MaxGroups == 2

\* the three digits of every thousands group of the amount texts
GroupDigits == <<"2", "3", "4">>

\* a head followed by one three-digit group per separator of seps
RECURSIVE Grouped(_, _)
Grouped(head, seps) ==
    IF seps = <<>> THEN head
    ELSE Grouped(head \o <<Head(seps)>> \o GroupDigits, Tail(seps))

AmountBodies ==
    {Grouped(h, f) : h \in {<<"1">>, <<"5", "6">>},
                     f \in UNION {[1..g -> THOUS_SEP_CLASS] : g \in 1..MaxGroups}}
    \cup {<<"1", "2", "5", "7">>, <<"5">>, <<"4", "0">>}

AmountCandidates ==
    {sg \o b \o d : sg \in {<<>>, <<"-">>}, b \in AmountBodies,
                    d \in {<<>>, <<",", "5", "0">>, <<".", "5", "0">>}}
    \cup {<<"(">> \o b \o d \o <<")">> : b \in AmountBodies,
                                       d \in {<<>>, <<",", "5", "0">>}}

\* the candidates that AMOUNT_RE matches from their first to their last character
AmountTexts ==
    {t \in AmountCandidates :
        AMOUNT_RE(t) = <<[s |-> 1, e |-> Len(t) + 1, text |-> t]>>}

InitAmount ==
    /\ pc = "amount" /\ txt \in AmountTexts /\ lines = <<>>
    /\ solde_initial_txt = None /\ i = 0 /\ fixed = <<>> /\ rows = <<>>
    /\ current = None /\ pending_prefix = <<>> /\ k = 0 /\ prev_balance = None
    /\ txs = <<>> /\ log = <<>> /\ out = None /\ header = None /\ NoRequests

\* out = _norm_amount_txt(txt)
NormAmount ==
    /\ pc = "amount"
    /\ out' = _norm_amount_txt(txt)
    /\ pc' = "amount_done"
    /\ UNCHANGED <<lines, solde_initial_txt, i, fixed, rows, current, pending_prefix, k,
                   prev_balance, txs, log, txt, header, passes, reqs, files>>

NextAmount == NormAmount

SpecAmount == InitAmount /\ [][NextAmount]_vars

\* ------------------------------------------------------------------------
\* _fix_split_dates applied to its own result
\* ------------------------------------------------------------------------
\* largest number of lines handed to _fix_split_dates
MaxFixLines == 3

\* lines with whole dates, dates cut before the year, and year continuations
FixLines == {
    \* a 31/12
    <<"a", " ", "3", "1", "/", "1", "2">>,
    \* /24
    <<"/", "2", "4">>,
    \* /25 x
    <<"/", "2", "5", " ", "x">>,
    \* b 1/2 / 24
    <<"b", " ", "1", "/", "2", " ", "/", " ", "2", "4">>,
    \* c
    <<"c">>,
    \* d 01/02/24
    <<"d", " ", "0", "1", "/", "0", "2", "/", "2", "4">>}

InitFix ==
    /\ pc = "unfixed" /\ lines \in SeqUpTo(FixLines, MaxFixLines)
    /\ solde_initial_txt = None /\ i = 0 /\ fixed = <<>> /\ rows = <<>>
    /\ current = None /\ pending_prefix = <<>> /\ k = 0 /\ prev_balance = None
    /\ txs = <<>> /\ log = <<>> /\ txt = <<>> /\ out = None /\ header = None /\ NoRequests

\* fixed = _fix_split_dates(lines)
FixOnce ==
    /\ pc = "unfixed"
    /\ fixed' = _fix_split_dates(lines)
    /\ pc' = "fixed_once"
    /\ UNCHANGED <<lines, solde_initial_txt, i, rows, current, pending_prefix, k,
                   prev_balance, txs, log, txt, out, header, passes, reqs, files>>

\* out = _fix_split_dates(fixed)
FixTwice ==
    /\ pc = "fixed_once"
    /\ out' = _fix_split_dates(fixed)
    /\ pc' = "fixed_twice"
    /\ UNCHANGED <<lines, solde_initial_txt, i, fixed, rows, current, pending_prefix, k,
                   prev_balance, txs, log, txt, header, passes, reqs, files>>

NextFix == FixOnce \/ FixTwice

SpecFix == InitFix /\ [][NextFix]_vars

\* ------------------------------------------------------------------------
\* _extract_header applied to a list of lines
\* ------------------------------------------------------------------------
\* largest number of lines handed to _extract_header
MaxHeaderLines == 3

\* label lines of the holder, of the account and of the opening balance,
\* two of each with different values, and a line without label
HeaderLines == {
    \* nom du client: a
    <<"n", "o", "m", " ", "d", "u", " ", "c", "l", "i", "e", "n", "t", ":", " ", "a">>,
    \* nom du client: b
    <<"n", "o", "m", " ", "d", "u", " ", "c", "l", "i", "e", "n", "t", ":", " ", "b">>,
    \* numero de compte: 1 xaf
    <<"n", "u", "m", "e", "r", "o", " ", "d", "e", " ", "c", "o", "m", "p", "t", "e", ":", " ", "1", " ", "x", "a", "f">>,
    \* numéro de compte: 2
    <<"n", "u", "m", "@", "r", "o", " ", "d", "e", " ", "c", "o", "m", "p", "t", "e", ":", " ", "2">>,
    \* solde initial 10 000
    <<"s", "o", "l", "d", "e", " ", "i", "n", "i", "t", "i", "a", "l", " ", "1", "0", " ", "0", "0", "0">>,
    \* solde initial 2 000,50
    <<"s", "o", "l", "d", "e", " ", "i", "n", "i", "t", "i", "a", "l", " ", "2", " ", "0", "0", "0", ",", "5", "0">>,
    \* x
    <<"x">>}

InitHeader ==
    /\ pc = "header" /\ lines \in SeqUpTo(HeaderLines, MaxHeaderLines)
    /\ header = HeaderDefaults /\ NoRequests
    /\ solde_initial_txt = None /\ i = 1 /\ fixed = <<>> /\ rows = <<>>
    /\ current = None /\ pending_prefix = <<>> /\ k = 0 /\ prev_balance = None
    /\ txs = <<>> /\ log = <<>> /\ txt = <<>> /\ out = None

\* one iteration of the for loop of _extract_header
HeaderLine ==
    /\ pc = "header" /\ i <= Len(lines)
    /\ header' = HeaderStep(lines[i], header)
    /\ i' = i + 1
    /\ UNCHANGED <<pc, lines, solde_initial_txt, fixed, rows, current, pending_prefix, k,
                   prev_balance, txs, log, txt, out, passes, reqs, files>>

\* _extract_header returns its four locals
HeaderReturn ==
    /\ pc = "header" /\ i > Len(lines)
    /\ out' = header
    /\ pc' = "header_done"
    /\ UNCHANGED <<lines, solde_initial_txt, i, fixed, rows, current, pending_prefix, k,
                   prev_balance, txs, log, txt, header, passes, reqs, files>>

NextHeader == HeaderLine \/ HeaderReturn

SpecHeader == InitHeader /\ [][NextHeader]_vars

\* ------------------------------------------------------------------------
\* Two row passes side by side: parse_saphir_transactions and
\* parse_safir_transactions called for two documents by two callers, one
\* iteration of either for loop at a time
\* ------------------------------------------------------------------------
\* largest number of rows of a document parsed side by side with another
MaxPairRows == 2

\* rows as _collect_table_rows hands them to the loop of parse_saphir_transactions
PairSaphirRows == {
    \* 1/1/24 2/1/24 vir 2 000 12 000
    <<"1", "/", "1", "/", "2", "4", " ", "2", "/", "1", "/", "2", "4", " ", "v", "i", "r", " ", "2", " ", "0", "0", "0", " ", "1", "2", " ", "0", "0", "0">>}

\* rows as _build_safir_rows hands them to the loop of parse_safir_transactions
PairSafirRows == {
    \* 01/01/2024 02/01/2024 frais 50,00 950,00
    <<"0", "1", "/", "0", "1", "/", "2", "0", "2", "4", " ", "0", "2", "/", "0", "1", "/", "2", "0", "2", "4", " ", "f", "r", "a", "i", "s", " ", "5", "0", ",", "0", "0", " ", "9", "5", "0", ",", "0", "0">>,
    \* 01/01/2024 02/01/2024 x 500,00 700,00
    <<"0", "1", "/", "0", "1", "/", "2", "0", "2", "4", " ", "0", "2", "/", "0", "1", "/", "2", "0", "2", "4", " ", "x", " ", "5", "0", "0", ",", "0", "0", " ", "7", "0", "0", ",", "0", "0">>}

\* the opening balance a pass is seeded with: that of the header, or none
PairSeed(known) == IF known THEN Some(1000 * Scale) ELSE None

\* the row lists of the documents of a parser
PairRowLists(parser) ==
    IF parser = "parser_saphir" THEN SeqUpTo(PairSaphirRows, MaxPairRows)
    ELSE SeqUpTo(PairSafirRows, MaxPairRows)

\* the local variables of a row pass before its first row
PassStart(parser, rs, seed) ==
    [parser |-> parser, rows |-> rs, seed |-> seed, k |-> 1, prev_balance |-> seed,
     txs |-> <<>>, returned |-> FALSE]

\* the iteration of parse_saphir_transactions once the row is parsed
SaphirRowStep(prev, transactions, parsed) ==
    [prev_balance |-> SaphirAdvance(prev, parsed), txs |-> SaphirEmit(transactions, parsed)]

\* the iteration of parse_safir_transactions once the row is parsed
SafirRowStep(transactions, r) ==
    [prev_balance |-> r.prev,
     txs |-> IF r.tx = NoResult THEN transactions ELSE Append(transactions, r.tx)]

\* one iteration of the for loop of either parser on the row, from the
\* previous balance prev and the transactions emitted so far
RowStep(parser, row, prev, transactions) ==
    IF parser = "parser_saphir"
    THEN SaphirRowStep(prev, transactions, _parse_saphir_row(row, prev))
    ELSE SafirRowStep(transactions, SafirRow(row, prev))

\* the for loop of either parser run from the row n on, on the rows of d
RECURSIVE SoloPass(_, _, _, _)
\* the loop goes on after the iteration st of the row n
SoloNext(d, n, st) == SoloPass(d, n + 1, st.prev_balance, st.txs)

SoloPass(d, n, prev, transactions) ==
    IF n > Len(d.rows) THEN [prev_balance |-> prev, txs |-> transactions]
    ELSE SoloNext(d, n, RowStep(d.parser, d.rows[n], prev, transactions))

\* every pass reads the previous balance of the first pass
PassPrevShared(ps, p) == ps[1].prev_balance

\* the previous balance pass p reads: its own local variable
PassPrev(ps, p) == ps[p].prev_balance

InitPair ==
    /\ pc = "pair" /\ lines = <<>> /\ Idle
    /\ \E f1, f2 \in {"parser_saphir", "parser"}, b1, b2 \in BOOLEAN :
          \E r1 \in PairRowLists(f1), r2 \in PairRowLists(f2) :
              passes = <<PassStart(f1, r1, PairSeed(b1)), PassStart(f2, r2, PairSeed(b2))>>
    /\ reqs = <<>> /\ files = {}

\* one pass runs one iteration of its for loop
PassRow ==
    /\ pc = "pair"
    /\ \E p \in 1..2 :
          /\ passes[p].k <= Len(passes[p].rows)
          /\ \E st \in {RowStep(passes[p].parser, passes[p].rows[passes[p].k],
                                 PassPrev(passes, p), passes[p].txs)} :
                 passes' = [passes EXCEPT ![p].k = @ + 1,
                                          ![p].prev_balance = st.prev_balance,
                                          ![p].txs = st.txs]
    /\ UNCHANGED <<parser_vars, reqs, files>>

\* one pass returns its transactions
PassReturn ==
    /\ pc = "pair"
    /\ \E p \in 1..2 :
          /\ passes[p].k > Len(passes[p].rows) /\ ~passes[p].returned
          /\ passes' = [passes EXCEPT ![p].returned = TRUE]
    /\ UNCHANGED <<parser_vars, reqs, files>>

NextPair == PassRow \/ PassReturn

SpecPair == InitPair /\ [][NextPair]_vars

\* ------------------------------------------------------------------------
\* The loops of _fix_split_dates and of _build_safir_rows run to their end
\* ------------------------------------------------------------------------
InitLoops ==
    /\ \/ pc = "fix" /\ lines \in SeqUpTo(FixLines, MaxFixLines)
       \/ pc = "build" /\ lines \in SafirDocs
    /\ i = 1
    /\ solde_initial_txt = None /\ fixed = <<>> /\ rows = <<>>
    /\ current = None /\ pending_prefix = <<>> /\ k = 0 /\ prev_balance = None
    /\ txs = <<>> /\ log = <<>> /\ txt = <<>> /\ out = None /\ header = None /\ NoRequests

NextLoops == FixStep \/ FindTableHeader \/ BuildRow \/ StartSafirPass

\* control moves on in a running loop: to a later line, or out of the loop
LoopAdvance ==
    /\ pc \in {"fix", "build"}
    /\ pc' \in {"fix", "build", "collect", "safir_rows"}
    /\ i' \in 1..(Len(lines) + 1)
    /\ (pc' # pc \/ i' > i)

\* the interpreter does not stop inside a loop: while one is running, its
\* next iteration or its return takes place
SpecLoops == InitLoops /\ [][NextLoops]_vars /\ WF_<<pc, i>>(LoopAdvance)

\* s ends with w
EndsWith(s, w) ==
    Len(s) >= Len(w) /\ SubSeq(s, Len(s) - Len(w) + 1, Len(s)) = w

\* ------------------------------------------------------------------------
\* parse_saphir_transactions and extract_saphir_bank_statement_data as
\* functions of the OCR text (parser_saphir.py)
\* ------------------------------------------------------------------------
\* the for loop of _collect_table_rows from the line n on
RECURSIVE CollectLoop(_, _, _, _)
\* the loop goes on after the iteration st of the line n
CollectNext(ls, n, st) == CollectLoop(ls, n + 1, st.rows, st.current)

CollectLoop(ls, n, rs, cur) ==
    IF n > Len(ls) THEN CollectFinish(rs, cur)
    ELSE CollectNext(ls, n, CollectStep(ls[n], rs, cur))

_collect_table_rows(all_lines) == CollectLoop(all_lines, TableStart(all_lines), <<>>, None)

parse_saphir_transactions(ls, initial) ==
    SoloPass([parser |-> "parser_saphir", rows |-> _collect_table_rows(_fix_split_dates(ls))],
             1, SaphirSeed(initial), <<>>).txs

\* [l.strip() for l in ocr_text.splitlines() if l.strip()]
StrippedLines(text) == SelectSeq([n \in 1..Len(text) |-> Strip(text[n])], LAMBDA l : l # <<>>)

\* the result once the header h of the lines is known
ResultWithHeader(ls, h) == SaphirResult(h, parse_saphir_transactions(ls, h.solde_initial))

\* the result for the stripped lines of a text
ExtractFromLines(ls) ==
    IF ~is_saphir_statement(ls) THEN NotSaphirResult
    ELSE ResultWithHeader(ls, _extract_header(ls))

\* the result for an OCR text, given as its list of lines
extract_saphir_bank_statement_data(text) == ExtractFromLines(StrippedLines(text))

\* ------------------------------------------------------------------------
\* The route /extract (routes/extraction.py): extract_fields
\*
\* A file of the working directory is [name, by, readable, text, pages]: its
\* name, the request that wrote it, whether the imaging libraries can open
\* it, the lines OCR reads on it and what extract_with_yolo_and_rules
\* returns for each of its pages.  A page image is a file of one page.
\* The handler is a coroutine without any await, run by the one event loop
\* that main.py starts: once a request is inside the handler, the others
\* wait until it has left it.
\* ------------------------------------------------------------------------
\* largest number of pages of an uploaded PDF
MaxPages == 2

\* the names clients give to their uploads
Filenames == {
    \* a
    <<"a">>,
    \* a.pdf
    <<"a", ".", "p", "d", "f">>,
    \* b.png
    <<"b", ".", "p", "n", "g">>}

\* OCR texts of uploads: a statement of the family, a statement of the
\* bank without the words of the family, one with them, and another bank
ExtractTexts == {
    <<SaphirHeading,
      <<"1", "/", "1", "/", "2", "4", " ", "2", "/", "1", "/", "2", "4", " ", "v", "i", "r", " ", "2", " ", "0", "0", "0", " ", "1", "2", " ", "0", "0", "0">>>>,
    <<<<"a", "f", "r", "i", "l", "a", "n", "d", " ", "f", "i", "r", "s", "t", " ", "b", "a", "n", "k">>>>,
    <<OtherHeading, <<"a", "f", "r", "i", "l", "a", "n", "d", " ", "f", "i", "r", "s", "t", " ", "b", "a", "n", "k">>>>,
    <<<<"r", "e", "l", "e", "v", "e", " ", "b", "a", "n", "c", "a", "i", "r", "e">>>>}

\* what extract_with_yolo_and_rules returns for a page: each header field
\* is None or a non-empty text
PageData == {
    [banque |-> "A", compte |-> None, titulaire |-> "T", periode |-> None,
     transactions |-> <<"t1">>],
    [banque |-> "B", compte |-> "C", titulaire |-> None, periode |-> "P",
     transactions |-> <<"t2", "t3">>],
    [banque |-> None, compte |-> None, titulaire |-> None, periode |-> None,
     transactions |-> <<>>]}

\* file.filename.lower().endswith(".pdf")
IsPdf(filename) == EndsWith(LowerStr(filename), <<".", "p", "d", "f">>)

\* the page lists an upload of that name can have: an image is one page
PagesFor(filename) ==
    IF IsPdf(filename) THEN SeqUpTo(PageData, MaxPages) \ {<<>>}
    ELSE [1..1 -> PageData]

\* temp_path = f"temp_{file.filename}"
temp_path(filename) == <<"t", "e", "m", "p", "_">> \o filename

\* f"{temp_path}_p{i+1}.png" for the n-th page
PagePath(tp, n) == tp \o <<"_", "p">> \o <<DigitChar(n)>> \o <<".", "p", "n", "g">>

Exists(fs, name) == \E f \in fs : f.name = name

ReadFile(fs, name) == CHOOSE f \in fs : f.name = name

\* open(name, "wb") and the write, or img.save(name), by the request r
WriteFile(fs, name, r, readable, text, pages) ==
    {f \in fs : f.name # name}
    \cup {[name |-> name, by |-> r, readable |-> readable, text |-> text,
           pages |-> pages]}

\* the PDF pages saved as images
RECURSIVE SavePages(_, _, _, _, _)
SavePages(fs, tp, r, pages, n) ==
    IF n > Len(pages) THEN fs
    ELSE SavePages(WriteFile(fs, PagePath(tp, n), r, TRUE, <<>>, <<pages[n]>>), tp, r, pages, n + 1)

\* the finally block: the upload, then every .png whose name starts with
\* temp_path
RemoveTemp(fs, tp) ==
    {f \in fs : /\ f.name # tp
                 /\ ~(StartsAt(f.name, 1, tp) /\ EndsWith(f.name, <<".", "p", "n", "g">>))}

\* ocr_to_text: the text of the file with its odd spaces made plain
ocr_to_text(f) == [n \in 1..Len(f.text) |-> ReplaceChar(f.text[n], "~", " ")]

\* is_saphir_file: a failing OCR counts as no
is_saphir_file(fs, name) ==
    /\ Exists(fs, name)
    /\ ReadFile(fs, name).readable
    /\ \E n \in 1..Len(ocr_to_text(ReadFile(fs, name))) :
           LET low == LowerStr(ocr_to_text(ReadFile(fs, name))[n])
           IN \/ Contains(low, <<"s", "a", "p", "h", "i", "r">>)
              \/ Contains(low, <<"a", "f", "r", "i", "l", "a", "n", "d">>)

\* final_data before the first page
EmptyFinalData ==
    [banque |-> None, compte |-> None, titulaire |-> None, periode |-> None,
     transactions |-> <<>>]

\* every header field takes the value of the page, also when it has one
MergePageLastWins(final_data, page_data) ==
    [banque |-> page_data.banque, compte |-> page_data.compte,
     titulaire |-> page_data.titulaire, periode |-> page_data.periode,
     transactions |-> final_data.transactions \o page_data.transactions]

\* final_data after a page
MergePage(final_data, page_data) ==
    [f \in DOMAIN final_data |->
        IF f = "transactions" THEN final_data[f] \o page_data[f]
        ELSE IF final_data[f] = None /\ page_data[f] # None THEN page_data[f]
        ELSE final_data[f]]

\* a request received and not yet handled
Received(filename, readable, text, pages) ==
    [filename |-> filename, readable |-> readable, text |-> text, pages |-> pages,
     pc |-> "received", routed |-> None, image_paths |-> <<>>, j |-> 0,
     final_data |-> EmptyFinalData, status |-> 0]

\* one request with any upload, or two requests received together
InitExtract ==
    /\ pc = "extract" /\ lines = <<>> /\ Idle
    /\ passes = <<>> /\ files = {}
    /\ \/ \E fn \in Filenames, ok \in BOOLEAN, t \in ExtractTexts :
             \E ps \in PagesFor(fn) : reqs = <<Received(fn, ok, t, ps)>>
       \/ \E f1, f2 \in Filenames, ok1, ok2 \in BOOLEAN :
             \E t \in {t \in ExtractTexts : ~is_saphir_statement(t)},
                p1 \in {ps \in PagesFor(f1) : Len(ps) = 1},
                p2 \in {ps \in PagesFor(f2) : Len(ps) = 1} :
                 reqs = <<Received(f1, ok1, t, p1), Received(f2, ok2, t, p2)>>

\* a handler that gives the event loop back between its steps
FreeAwaiting(r) == TRUE

\* no other request is inside the handler
Free(r) == \A q \in DOMAIN reqs : q # r => reqs[q].pc \in {"received", "done"}

\* the upload is copied to temp_path
Upload ==
    /\ pc = "extract"
    /\ \E r \in DOMAIN reqs :
          /\ reqs[r].pc = "received" /\ Free(r)
          /\ files' = WriteFile(files, temp_path(reqs[r].filename), r, reqs[r].readable,
                                reqs[r].text, reqs[r].pages)
          /\ reqs' = [reqs EXCEPT ![r].pc = "classify"]
    /\ UNCHANGED <<parser_vars, passes>>

\* if is_saphir_file(temp_path)
Classify ==
    /\ pc = "extract"
    /\ \E r \in DOMAIN reqs :
          /\ reqs[r].pc = "classify"
          /\ \E yes \in {is_saphir_file(files, temp_path(reqs[r].filename))} :
                 reqs' = [reqs EXCEPT ![r].pc = IF yes THEN "saphir" ELSE "generic",
                                      ![r].routed = IF yes THEN "saphir" ELSE "generic"]
    /\ UNCHANGED <<parser_vars, passes, files>>

\* the Saphir branch: OCR of the upload and extract_saphir_bank_statement_data;
\* a failing OCR raises, which the except clause turns into status 500
SaphirBranch ==
    /\ pc = "extract"
    /\ \E r \in DOMAIN reqs :
          /\ reqs[r].pc = "saphir"
          /\ IF /\ Exists(files, temp_path(reqs[r].filename))
                /\ ReadFile(files, temp_path(reqs[r].filename)).readable
             THEN \E d \in {extract_saphir_bank_statement_data(
                                ocr_to_text(ReadFile(files, temp_path(reqs[r].filename))))} :
                      reqs' = [reqs EXCEPT ![r].pc = "finally", ![r].final_data = d,
                                           ![r].status = 200]
             ELSE reqs' = [reqs EXCEPT ![r].pc = "finally", ![r].status = 500]
    /\ UNCHANGED <<parser_vars, passes, files>>

\* the generic branch up to the page loop: the pages of a PDF are saved as
\* images, an image is its own page; a PDF that cannot be opened raises
Convert ==
    /\ pc = "extract"
    /\ \E r \in DOMAIN reqs :
          LET tp == temp_path(reqs[r].filename)
          IN /\ reqs[r].pc = "generic"
             /\ IF ~IsPdf(reqs[r].filename)
                THEN /\ reqs' = [reqs EXCEPT ![r].pc = "pages", ![r].image_paths = <<tp>>,
                                             ![r].j = 1]
                     /\ files' = files
                ELSE IF ~(Exists(files, tp) /\ ReadFile(files, tp).readable)
                THEN /\ reqs' = [reqs EXCEPT ![r].pc = "finally", ![r].status = 500]
                     /\ files' = files
                ELSE \E pages \in {ReadFile(files, tp).pages} :
                        /\ files' = SavePages(files, tp, r, pages, 1)
                        /\ reqs' = [reqs EXCEPT
                                       ![r].pc = "pages", ![r].j = 1,
                                       ![r].image_paths =
                                           [n \in 1..Len(pages) |-> PagePath(tp, n)]]
    /\ UNCHANGED <<parser_vars, passes>>

\* one iteration of the page loop: an image that cannot be read raises;
\* after the last page the response is built
PageStep ==
    /\ pc = "extract"
    /\ \E r \in DOMAIN reqs :
          LET ipath == reqs[r].image_paths[reqs[r].j]
              last  == reqs[r].j = Len(reqs[r].image_paths)
          IN /\ reqs[r].pc = "pages"
             /\ IF ~(Exists(files, ipath) /\ ReadFile(files, ipath).readable)
                THEN reqs' = [reqs EXCEPT ![r].pc = "finally", ![r].status = 500]
                ELSE \E page_data \in {ReadFile(files, ipath).pages[1]} :
                        reqs' = [reqs EXCEPT
                                    ![r].final_data = MergePage(@, page_data),
                                    ![r].j = @ + 1,
                                    ![r].pc = IF last THEN "finally" ELSE "pages",
                                    ![r].status = IF last THEN 200 ELSE 0]
    /\ UNCHANGED <<parser_vars, passes, files>>

\* the finally block, and the response leaves
Cleanup ==
    /\ pc = "extract"
    /\ \E r \in DOMAIN reqs :
          /\ reqs[r].pc = "finally"
          /\ files' = RemoveTemp(files, temp_path(reqs[r].filename))
          /\ reqs' = [reqs EXCEPT ![r].pc = "done"]
    /\ UNCHANGED <<parser_vars, passes>>

NextExtract == Upload \/ Classify \/ SaphirBranch \/ Convert \/ PageStep \/ Cleanup

SpecExtract == InitExtract /\ [][NextExtract]_vars

\* ------------------------------------------------------------------------
\* Properties
\* ------------------------------------------------------------------------
\* two optional numbers are both absent, or both present and equal
Same(a, b) == IF a = None \/ b = None THEN a = None /\ b = None ELSE Val(a) = Val(b)

\* the previous balance after the n-th processed row
PrevAfter(n) == IF n < Len(log) THEN log[n + 1].prev ELSE prev_balance

\* the balance the n-th processed row came out with, as a number
EmittedBalance(n) ==
    IF log[n].result = NoResult THEN None
    ELSE IF log[n].result.solde = None THEN None
    ELSE float(log[n].result.solde)

\* the amount the n-th processed row came out with, as a number
EmittedAmount(n) ==
    IF log[n].result = NoResult THEN None
    ELSE IF log[n].result.montant = None THEN None
    ELSE float(log[n].result.montant)

\* C1: balance continuity. In both row passes, after a row that yields a
\* balance the previous balance handed to the next row is exactly that
\* balance, whether or not the row has an amount or a direction; after a
\* row that yields no balance the previous balance is what it was.
C1_BalanceContinuity ==
    \A n \in 1..Len(log) :
        IF EmittedBalance(n) # None
        THEN Same(PrevAfter(n), EmittedBalance(n))
        ELSE Same(PrevAfter(n), log[n].prev)

\* a row without amount moved the previous balance seen by the next row
C1_Witness ==
    \E n \in 1..(Len(log) - 1) :
        /\ log[n].result # NoResult
        /\ log[n].result.montant = None
        /\ EmittedBalance(n) # None
        /\ ~Same(log[n].prev, EmittedBalance(n))
        /\ Same(log[n + 1].prev, EmittedBalance(n))

\* the rows of parse_safir_transactions read with a known previous balance
\* and exactly two amount tokens [a, b], a > 0
TwoTokenRows ==
    {n \in 1..Len(log) : /\ log[n].parser = "parser"
                         /\ log[n].prev # None
                         /\ Len(log[n].parsed) = 2
                         /\ Val(log[n].parsed[1]) > 0}

\* C2: direction via delta in parse_safir_transactions. With previous
\* balance p and exactly two tokens [a, b], a > 0: b = p - a gives amount
\* a, direction Dr and balance b; b = p + a gives amount a, direction Cr
\* and balance b.
C2_DirectionViaDelta ==
    \A n \in TwoTokenRows :
        LET p == Val(log[n].prev)
            a == Val(log[n].parsed[1])
            b == Val(log[n].parsed[2])
        IN /\ b = p - a => /\ Same(EmittedAmount(n), Some(a))
                           /\ log[n].result.sens = "Dr"
                           /\ Same(EmittedBalance(n), Some(b))
           /\ b = p + a => /\ Same(EmittedAmount(n), Some(a))
                           /\ log[n].result.sens = "Cr"
                           /\ Same(EmittedBalance(n), Some(b))

\* a two-token row whose balance is the previous balance plus its amount
C2_Witness ==
    \E n \in TwoTokenRows :
        /\ Val(log[n].parsed[2]) = Val(log[n].prev) + Val(log[n].parsed[1])
        /\ log[n].result.sens = "Cr"

\* the rows of parse_saphir_transactions read with a known previous balance
\* and exactly two amount tokens [a, b], a > 0
TwoNumberRows ==
    {n \in 1..Len(log) : /\ log[n].parser = "parser_saphir"
                         /\ log[n].prev # None
                         /\ Len(log[n].nums) = 2
                         /\ Val(float(log[n].nums[1])) > 0}

\* C3: direction via delta in parse_saphir_transactions. With previous
\* balance p and exactly two tokens [a, b], a > 0, the row comes out with
\* amount a, and with direction Cr when b = p + a and Dr when b = p - a.
C3_SaphirDirectionViaDelta ==
    \A n \in TwoNumberRows :
        LET p == Val(log[n].prev)
            a == Val(float(log[n].nums[1]))
            b == Val(float(log[n].nums[2]))
        IN /\ b = p + a => Same(EmittedAmount(n), Some(a)) /\ log[n].result.sens = "Cr"
           /\ b = p - a => Same(EmittedAmount(n), Some(a)) /\ log[n].result.sens = "Dr"

\* first and last year of the deny-list of calendar-year literals
FirstDeniedYear == 2019

LastDeniedYear == 2026

\* a bare number of one or two digits
IsShortNumber(t) == Len(t) \in {1, 2} /\ \A n \in 1..Len(t) : IsDigit(t[n])

\* a four-digit literal of the deny-list
IsYearLiteral(t) ==
    /\ Len(t) = 4
    /\ \A n \in 1..4 : IsDigit(t[n])
    /\ 1000 * DigitVal(t[1]) + 100 * DigitVal(t[2]) + 10 * DigitVal(t[3]) + DigitVal(t[4])
         \in FirstDeniedYear..LastDeniedYear

\* C4: plausibility filter. No transaction of parse_saphir_transactions has
\* as its amount a bare number of one or two digits or a calendar-year
\* literal 2019..2026.
C4_PlausibilityFilter ==
    pc \in {"rows", "done"} =>
        \A n \in 1..Len(txs) :
            txs[n].montant # None =>
                ~IsShortNumber(txs[n].montant) /\ ~IsYearLiteral(txs[n].montant)

\* the amount text without sign, brackets and the blanks around them
AmountCore(t) == Keep(t, Digit \cup THOUS_SEP_CLASS \cup {","})

\* the text ends with a decimal separator and two digits
EndsWithDecimals(t) ==
    Len(AmountCore(t)) >= 3 /\ AmountCore(t)[Len(AmountCore(t)) - 2] \in {",", "."}

\* the digits of the text in their order, with one "." before the decimals
CanonicalAmount(t) ==
    LET ds == Keep(t, Digit)
    IN IF EndsWithDecimals(t)
       THEN SubSeq(ds, 1, Len(ds) - 2) \o <<".">> \o SubSeq(ds, Len(ds) - 1, Len(ds))
       ELSE ds

\* C5: amount normalization. For every text AMOUNT_RE matches,
\* _norm_amount_txt returns its digits in their order, every thousands
\* separator removed (a period before three digits included) and the decimal
\* separator turned into exactly one ".".
C5_AmountNormalization ==
    pc = "amount_done" => Remove(out, "-") = CanonicalAmount(txt)

\* C6: idempotence. _fix_split_dates applied to its own result returns it
\* unchanged.
C6_FixSplitDatesIdempotent == pc = "fixed_twice" => out = fixed

\* the indices of the row-start lines of ls, in order
StartsOf(ls, RowStart(_)) ==
    SelectSeq([n \in 1..Len(ls) |-> n], LAMBDA n : RowStart(ls[n]))

\* the index of the first row-start line after r, or one past the end
NextStart(ls, r, RowStart(_)) ==
    MinOf({j \in (r + 1)..Len(ls) : RowStart(ls[j])} \cup {Len(ls) + 1})

\* the non-empty lines between the row-start line r and the next one
Continuations(ls, r, RowStart(_)) ==
    SelectSeq(SubSeq(ls, r + 1, NextStart(ls, r, RowStart) - 1),
              LAMBDA l : Strip(l) # <<>>)

\* one row per row-start line: the line and its continuations
ClaimedRows(ls, RowStart(_)) ==
    [j \in 1..Len(StartsOf(ls, RowStart)) |->
        JoinBlank(<<ls[StartsOf(ls, RowStart)[j]]>>
                  \o Continuations(ls, StartsOf(ls, RowStart)[j], RowStart))]

\* the lines _collect_table_rows scans: those after the table header
ScannedLines == SubSeq(fixed, TableStart(fixed), Len(fixed))

\* C7 as stated: row building. In _collect_table_rows and _build_safir_rows
\* every row is its row-start line followed, in input order, by every
\* following non-empty line that is not a row start, up to the next row
\* start; the lines after the last row start belong to the last row.
C7_RowBuilding ==
    /\ pc = "rows" => rows = ClaimedRows(ScannedLines, IsRowStart)
    /\ pc = "safir_rows" => rows = ClaimedRows(lines, date_line_re)

\* the line kept as pending prefix: the line right before the first
\* row-start line, when there is one
PrefixOf(ls) ==
    LET st == StartsOf(ls, date_line_re)
    IN IF st # <<>> /\ st[1] > 1 THEN <<ls[st[1] - 1]>> ELSE <<>>

\* the rows of ClaimedRows, the first one with the pending prefix right
\* after its row-start line
PrefixedRows(ls) ==
    LET st == StartsOf(ls, date_line_re)
    IN [j \in 1..Len(st) |->
          JoinBlank(<<ls[st[j]]>> \o (IF j = 1 THEN PrefixOf(ls) ELSE <<>>)
                    \o Continuations(ls, st[j], date_line_re))]

\* C7 as amended: as stated for _collect_table_rows; in _build_safir_rows
\* the first row holds in addition, right after its row-start line, the
\* line that immediately precedes the first row-start line.
C7_RowBuildingWithPrefix ==
    /\ pc = "rows" => rows = ClaimedRows(ScannedLines, IsRowStart)
    /\ pc = "safir_rows" => rows = PrefixedRows(lines)

\* a row start between a pending prefix and a continuation line
C7_Witness ==
    /\ pc = "safir_rows"
    /\ Len(lines) = 4
    /\ ~date_line_re(lines[2]) /\ date_line_re(lines[3]) /\ ~date_line_re(lines[4])
    /\ rows = <<JoinBlank(<<lines[3], lines[2], lines[4]>>)>>

\* C8: no row is dropped. parse_saphir_transactions returns exactly one
\* transaction for every row of _collect_table_rows; a row without usable
\* number has neither amount nor direction.
C8_OneTransactionPerRow ==
    pc = "done" =>
        /\ Len(txs) = Len(rows)
        /\ \A n \in 1..Len(log) :
               log[n].nums = <<>> =>
                   /\ log[n].result # NoResult
                   /\ log[n].result.montant = None
                   /\ log[n].result.sens = None

\* C9: no double consumption. In every row of parse_safir_transactions
\* that comes out with an amount, the span of the amount token and the
\* span of the balance token are disjoint.
C9_NoDoubleConsumption ==
    \A n \in 1..Len(log) :
        (/\ log[n].parser = "parser"
         /\ log[n].result # NoResult
         /\ log[n].result.montant # None)
        => \/ log[n].montant_span[2] <= log[n].solde_span[1]
           \/ log[n].solde_span[2] <= log[n].montant_span[1]

\* C10: single-token rows. A row of parse_safir_transactions with exactly
\* one amount token has no amount, and its balance is the token's value.
C10_SingleTokenIsBalanceOnly ==
    \A n \in 1..Len(log) :
        (log[n].parser = "parser" /\ Len(log[n].parsed) = 1)
        => /\ log[n].result.montant = None
           /\ Same(EmittedBalance(n), log[n].parsed[1])

\* the rows of parse_safir_transactions that came out with a direction
DirectedRows ==
    {n \in 1..Len(log) : /\ log[n].parser = "parser"
                         /\ log[n].result # NoResult
                         /\ log[n].result.sens # None}

\* the text of the token taken as the amount of the n-th processed row
ChosenToken(n) ==
    Slice(row_re(log[n].row).tail, log[n].montant_span[1], log[n].montant_span[2])

\* two numbers are within the tolerance of the reconciliation: 2 % of the
\* first one, or 5 units
WithinTolerance(a, b) == \/ Abs(a - b) <= Abs(a) \div 50
                         \/ Abs(a - b) <= 5 * Scale

\* the balance of the n-th processed row is its previous balance plus
\* sign times its amount, within tolerance
Reconstructs(n, sign) ==
    /\ log[n].prev # None
    /\ EmittedAmount(n) # None
    /\ EmittedBalance(n) # None
    /\ WithinTolerance(Val(EmittedBalance(n)),
                       Val(log[n].prev) + sign * Val(EmittedAmount(n)))

\* C11: direction is never guessed. A row of parse_safir_transactions
\* comes out with a direction only when the new balance is the previous
\* balance plus the amount (Cr) or minus the amount (Dr) within tolerance,
\* or the chosen token carries an explicit sign, or a debit or credit
\* keyword occurs in the row text; otherwise the direction is unknown.
C11_DirectionNeverGuessed ==
    \A n \in DirectedRows :
        \/ log[n].result.sens = "Cr" /\ Reconstructs(n, 1)
        \/ log[n].result.sens = "Dr" /\ Reconstructs(n, -1)
        \/ At(ChosenToken(n), 1) \in {"+", "-", "("}
        \/ HasKeyword(LowerStr(log[n].row), CREDIT_KEYWORDS \cup DEBIT_KEYWORDS)

\* the first date of a line that starts a row
FirstDate(line) == Slice(line, SkipWs(line, 1), DateThenSpace(line, SkipWs(line, 1)))

\* the row-start lines of the repaired lines that come after a line that is
\* no row start
StartsAfterNoise ==
    {r \in 1..Len(fixed) : IsRowStart(fixed[r]) /\ \E j \in 1..(r - 1) : ~IsRowStart(fixed[j])}

\* the line r opens a row that the row pass has read, the rows being
\* counted from the line first
Processed(r, first) ==
    \E m \in 1..Len(rows) :
        /\ m <= Len(log)
        /\ log[m].row = rows[m]
        /\ StartsAt(rows[m], 1, fixed[r])
        /\ Cardinality({j \in first..r : IsRowStart(fixed[j])}) = m

\* no transaction comes from a line that is no row start: there are at most
\* as many transactions as row-start lines, each dated by one of them
OnlyRowStartsEmit ==
    /\ Len(txs) <= Len(StartsOf(fixed, IsRowStart))
    /\ \A n \in 1..Len(txs) :
           \E r \in 1..Len(fixed) : IsRowStart(fixed[r]) /\ txs[n].date = FirstDate(fixed[r])

\* C12 as stated: noise lines. In parse_saphir_transactions a line that
\* does not begin with two dates never yields a transaction of its own, and
\* every row-start line that follows such a line is collected into a row
\* and processed; the lines are those _fix_split_dates returns.
C12_NoiseLines ==
    pc = "done" =>
        /\ OnlyRowStartsEmit
        /\ \A r \in StartsAfterNoise : Processed(r, 1)

\* C12 as amended: the same, for the row-start lines that come after the
\* header line of the table when the document has one.
C12_NoiseLinesAfterTableHeader ==
    pc = "done" =>
        /\ OnlyRowStartsEmit
        /\ \A r \in StartsAfterNoise :
               r >= TableStart(fixed) => Processed(r, TableStart(fixed))

\* two row-start lines, each right after a line that is no row start, have
\* both been processed and have both yielded a transaction
C12_Witness ==
    /\ pc = "done"
    /\ Len(fixed) = 4
    /\ TableStart(fixed) = 1
    /\ ~IsRowStart(fixed[1]) /\ IsRowStart(fixed[2])
    /\ ~IsRowStart(fixed[3]) /\ IsRowStart(fixed[4])
    /\ Len(rows) = 2 /\ Len(log) = 2 /\ Len(txs) = 2
    /\ Processed(4, 1)

\* a date whose two-digit year is written out as 20YY
WithCentury(d) ==
    IF Len(d) >= 3 /\ d[Len(d) - 2] = "/"
    THEN SubSeq(d, 1, Len(d) - 2) \o <<"2", "0">> \o SubSeq(d, Len(d) - 1, Len(d))
    ELSE d

C14_NotSaphirResult ==
    (pc = "result" /\ ~is_saphir_statement(lines)) =>
        /\ out.banque = None /\ out.compte = None
        /\ out.titulaire = None /\ out.periode = None
        /\ out.transactions = <<>>
        /\ out._debug = [reason |-> "not_saphir"]
        /\ header = None /\ fixed = <<>> /\ rows = <<>> /\ log = <<>> /\ txs = <<>>

\* a document of another family that holds a row-start line has been
\* turned down
C14_Witness ==
    /\ pc = "result"
    /\ ~is_saphir_statement(lines)
    /\ \E n \in 1..Len(lines) : IsRowStart(lines[n])
    /\ out.transactions = <<>>

\* some line of ls carries one of the labels
Labelled(ls, labels) ==
    \E n \in 1..Len(ls) : \E w \in labels : Contains(LowerStr(_norm_spaces(ls[n])), w)

\* C15: header fields are never fabricated. In the result for a document of
\* the family, the account is null when no line carries the account-number
\* label, and the opening balance is null when no line carries its label.
C15_HeaderNeverFabricated ==
    (pc = "result" /\ is_saphir_statement(lines)) =>
        /\ ~Labelled(lines, {NUMERO, NUMERO_ACCENT}) => out.compte = None
        /\ ~Labelled(lines, {<<"s", "o", "l", "d", "e", " ", "i", "n", "i", "t", "i", "a", "l">>})
               => out._debug.solde_initial = None

\* the first line of ls that carries one of the labels and has a value: a
\* colon when colon is TRUE, an amount otherwise; 0 when there is none
FirstLabelled(ls, labels, colon) ==
    LET S == {n \in 1..Len(ls) :
                 /\ \E w \in labels : Contains(LowerStr(_norm_spaces(ls[n])), w)
                 /\ IF colon THEN HasColon(ls[n]) ELSE AMOUNT_RE(_norm_spaces(ls[n])) # <<>>}
    IN IF S = {} THEN 0 ELSE MinOf(S)

\* C16: first match wins. When several lines carry the label of the
\* holder, of the account or of the opening balance, _extract_header
\* returns for the field the value of the first of them.
C16_FirstMatchWins ==
    pc = "header_done" =>
        LET t == FirstLabelled(lines, {NOM}, TRUE)
            c == FirstLabelled(lines, {NUMERO, NUMERO_ACCENT}, TRUE)
            b == FirstLabelled(lines, {<<"s", "o", "l", "d", "e", " ", "i", "n", "i", "t", "i", "a", "l">>}, FALSE)
        IN /\ t # 0 => out.titulaire = AfterColon(_norm_spaces(lines[t]))
           /\ c # 0 => out.compte = Strip(RemoveXafFrom(AfterColon(_norm_spaces(lines[c])), 1))
           /\ b # 0 => out.solde_initial
                           = _norm_amount_txt(AMOUNT_RE(_norm_spaces(lines[b]))[1].text)

\* two optional texts are both absent, or both present and equal
SameText(a, b) == IF a = None \/ b = None THEN a = None /\ b = None ELSE a = b

\* the processed rows that yielded a transaction, in the order of the rows
Yielding == SelectSeq([n \in 1..Len(log) |-> n], LAMBDA n : log[n].result # NoResult)

\* the lines that start the rows, in input order
StartLines ==
    IF pc \in {"rows", "done", "result"}
    THEN SelectSeq(ScannedLines, IsRowStart)
    ELSE LET st == SelectSeq(lines, date_line_re)
         IN [j \in 1..Len(st) |-> Strip(st[j])]

\* C17: transaction order. The transactions both row passes return are
\* those of the rows that yield one, in the order of the rows, each once;
\* the rows are in the order in which their row-start lines appear in the
\* input.
C17_TransactionOrder ==
    pc \in {"done", "safir_done"} =>
        LET starts == StartLines
            y      == Yielding
        IN /\ Len(rows) = Len(starts)
           /\ \A m \in 1..Len(rows) : StartsAt(rows[m], 1, starts[m])
           /\ \A m \in 1..Len(log) : log[m].row = rows[m]
           /\ Len(txs) = Len(y)
           /\ \A n \in 1..Len(txs) :
                  /\ txs[n].date = log[y[n]].result.date
                  /\ SameText(txs[n].description, log[y[n]].result.description)
                  /\ SameText(txs[n].montant, log[y[n]].result.montant)
                  /\ txs[n].sens = log[y[n]].result.sens

\* two transactions of different rows, the first dated after the second
C17_Witness ==
    /\ pc = "done"
    /\ Len(txs) = 2
    /\ txs[1].date = <<"3", "/", "1", "/", "2", "4">>
    /\ txs[2].date = <<"1", "/", "1", "/", "2", "4">>
    /\ StartsAt(rows[1], 1, <<"3", "/", "1", "/", "2", "4">>)

\* C18: the amount is unsigned. Every amount emitted by either row pass is
\* made of digits and at most one ".", without sign character or bracket.
C18_AmountUnsigned ==
    \A n \in 1..Len(txs) :
        txs[n].montant # None =>
            /\ \A j \in 1..Len(txs[n].montant) : txs[n].montant[j] \in Digit \cup {"."}
            /\ Count(txs[n].montant, ".") <= 1

\* C19: date normalization of rows. Every transaction emitted by
\* parse_saphir_transactions carries its year with four digits.
C19_DateNormalized ==
    \A n \in 1..Len(log) :
        (log[n].parser = "parser_saphir" /\ log[n].result # NoResult) =>
            LET d == log[n].result.date
            IN /\ Len(d) >= 5
               /\ d[Len(d) - 4] = "/"
               /\ \A j \in (Len(d) - 3)..Len(d) : IsDigit(d[j])

\* the tokens before the balance token that are closest to delta
Closest(p, delta) ==
    {j \in 1..(Len(p) - 1) :
        \A h \in 1..(Len(p) - 1) : Abs(Val(p[j]) - delta) <= Abs(Val(p[h]) - delta)}

\* C20: amount selection. For a row of parse_safir_transactions with at
\* least two tokens the last token is the balance; with a known previous
\* balance the token closest to delta = |balance - previous| is the amount
\* when it is within 2 % of delta or within 5 units of it, for every delta;
\* otherwise the amount is the token right before the balance token.
C20_AmountSelection ==
    \A n \in 1..Len(log) :
        (log[n].parser = "parser" /\ Len(log[n].parsed) >= 2) =>
            LET p     == log[n].parsed
                bal   == Val(p[Len(p)])
                delta == Abs(bal - Val(log[n].prev))
                near  == IF log[n].prev = None THEN {}
                         ELSE {j \in Closest(p, delta) : WithinTolerance(delta, Val(p[j]))}
            IN /\ Same(EmittedBalance(n), p[Len(p)])
               /\ IF near # {}
                  THEN \E j \in near : Same(EmittedAmount(n), p[j])
                  ELSE Same(EmittedAmount(n), p[Len(p) - 1])

\* ------------------------------------------------------------------------
\* C21: the pending description prefix of _build_safir_rows
\* ------------------------------------------------------------------------
\* the non-empty lines that are no row start and stand right before one
BeforeRowStart(ls) ==
    {n \in 1..(Len(ls) - 1) : /\ ~date_line_re(ls[n]) /\ Strip(ls[n]) # <<>>
                              /\ date_line_re(ls[n + 1])}

\* the position among the rows of the row started by line r
RowOf(ls, r) == Cardinality({m \in 1..r : date_line_re(ls[m])})

HasOpening(ls, Tokens(_)) ==
    \E n \in 1..Len(ls) : HasSoldeInitial(ls[n]) /\ Tokens(ls[n]) # <<>>

\* prev is the value of an amount written on a "solde initial" line of ls
SeededFromOpening(prev, ls, Tokens(_), Number(_)) ==
    /\ prev # None
    /\ \E n \in 1..Len(ls) :
           /\ HasSoldeInitial(ls[n])
           /\ \E j \in 1..Len(Tokens(ls[n])) : Same(prev, Number(Tokens(ls[n])[j]))

\* the texts of the amounts AMOUNT_RE of parser_saphir.py finds in l
AmountReTexts(l) == [j \in 1..Len(AMOUNT_RE(l)) |-> AMOUNT_RE(l)[j].text]

\* the number _find_initial_balance makes of an amount text
SafirNumber(t) == _to_float(_normalize_amount(t))

\* C22: seeding of the reconciliation state. When the row pass starts, the
\* previous balance is the amount of a "solde initial" line of the same
\* document if the document has such a line with an amount, and is None
\* otherwise, in parse_saphir_transactions and in parse_safir_transactions.
C22_Seeding ==
    /\ (pc = "rows" /\ k = 1) =>
           IF HasOpening(lines, AmountReTexts)
           THEN SeededFromOpening(prev_balance, lines, AmountReTexts, _to_number)
           ELSE prev_balance = None
    /\ (pc = "safir_rows" /\ k = 1) =>
           IF HasOpening(lines, AMOUNT_REGEX)
           THEN SeededFromOpening(prev_balance, lines, AMOUNT_REGEX, SafirNumber)
           ELSE prev_balance = None

\* a row pass about to read its first row with the opening balance of the
\* header line as previous balance
C22_Witness ==
    /\ pc = "rows" /\ k = 1 /\ rows # <<>>
    /\ HasOpening(lines, AmountReTexts)
    /\ prev_balance # None

\* ------------------------------------------------------------------------
\* C23: document isolation
\* ------------------------------------------------------------------------
\* two transactions have the same fields
SameTx(a, b) == \A f \in DOMAIN a : SameText(a[f], b[f])

\* the pass holds the balance and the transactions of solo
ReturnsAs(pass, solo) ==
    /\ Same(pass.prev_balance, solo.prev_balance)
    /\ Len(pass.txs) = Len(solo.txs)
    /\ \A n \in 1..Len(solo.txs) : SameTx(pass.txs[n], solo.txs[n])

\* C23: document isolation. When two documents are parsed side by side
\* with their row steps interleaved in any order, each one returns the
\* transactions, directions and balances it returns when parsed alone.
C23_DocumentIsolation ==
    pc = "pair" =>
        \A p \in 1..2 :
            passes[p].returned =>
                ReturnsAs(passes[p], SoloPass(passes[p], 1, passes[p].seed, <<>>))

\* both passes have returned transactions, from different documents with
\* different seeds
C23_Witness ==
    /\ pc = "pair"
    /\ passes[1].returned /\ passes[2].returned
    /\ passes[1].parser = "parser" /\ passes[2].parser = "parser"
    /\ passes[1].seed = None /\ passes[2].seed # None
    /\ Len(passes[1].txs) = 2 /\ Len(passes[2].txs) = 2
    /\ passes[1].txs[1].sens # passes[2].txs[1].sens

\* ------------------------------------------------------------------------
\* C24: termination and single consumption
\* ------------------------------------------------------------------------
\* the texts of ts one after the other
RECURSIVE Flat(_)
Flat(ts) == IF ts = <<>> THEN <<>> ELSE ts[1] \o Flat(Tail(ts))

\* s without its white space
NonWs(s) == SelectSeq(s, LAMBDA c : ~IsSpace(c))

\* a and b hold the same characters, each as many times
SameChars(a, b) ==
    \A c \in {a[n] : n \in 1..Len(a)} \cup {b[n] : n \in 1..Len(b)} :
        Count(a, c) = Count(b, c)

\* the lines _build_safir_rows places in a row: those from the first
\* row-start line on, and the line right before it
PlacedLines(ls) ==
    LET st == StartsOf(ls, date_line_re)
    IN IF st = <<>> THEN <<>>
       ELSE SubSeq(ls, IF st[1] > 1 THEN st[1] - 1 ELSE 1, Len(ls))

\* the loop index grows in every iteration of either loop
IndexIncreases == (pc \in {"fix", "build"} /\ pc' = pc) => i' > i

\* what was written so far holds every line read so far once: the output
\* lines of _fix_split_dates and the rows of _build_safir_rows
SingleConsumption ==
    /\ pc = "fix" => NonWs(Flat(fixed)) = NonWs(Flat(SubSeq(lines, 1, i - 1)))
    /\ pc = "collect" => NonWs(Flat(fixed)) = NonWs(Flat(lines))
    /\ pc = "safir_rows" => SameChars(NonWs(Flat(rows)), NonWs(Flat(PlacedLines(lines))))

\* C24: termination and single consumption. The loops of _build_safir_rows
\* and _fix_split_dates end on every list of lines, their line index grows
\* in every iteration, and every input line is in at most one row or
\* output line, once.
C24_Termination ==
    /\ [][IndexIncreases]_vars
    /\ []SingleConsumption
    /\ <>(pc \in {"collect", "safir_rows"})

\* _fix_split_dates has returned after joining a year continuation line to
\* the line before it
C24_Witness ==
    /\ pc = "collect"
    /\ Len(lines) = 3 /\ Len(fixed) = 2
    /\ fixed[1] # _norm_spaces(lines[1])

\* ------------------------------------------------------------------------
\* C25: dispatch consistency
\* ------------------------------------------------------------------------
\* C25: dispatch consistency. A file that the route /extract has classified
\* as Saphir and handed to extract_saphir_bank_statement_data never comes
\* back as the empty result whose reason is not_saphir.
C25_DispatchConsistency ==
    \A r \in DOMAIN reqs :
        (reqs[r].routed = "saphir" /\ reqs[r].status = 200)
            => "reason" \notin DOMAIN reqs[r].final_data._debug

\* ------------------------------------------------------------------------
\* C26: temporary files of requests in flight together
\* ------------------------------------------------------------------------
\* the files the request r has still to read
Needs(r) ==
    IF reqs[r].pc \in {"classify", "saphir", "generic"}
    THEN {temp_path(reqs[r].filename)}
    ELSE IF reqs[r].pc = "pages"
    THEN {reqs[r].image_paths[m] : m \in reqs[r].j..Len(reqs[r].image_paths)}
    ELSE {}

\* C26: temp-file isolation between requests. For two requests to /extract
\* in flight together, whatever the names of their uploads, every temporary
\* file a request has still to read is there as that request wrote it, and
\* no temporary file of a request is left once the request has finished,
\* with a result or with an error.
C26_TempFileIsolation ==
    \A r \in DOMAIN reqs :
        /\ \A name \in Needs(r) : \E f \in files : f.name = name /\ f.by = r
        /\ reqs[r].pc = "done" => ~\E f \in files : f.by = r

\* two uploads of the same PDF name were received together: the second
\* request has finished, the first is in its page loop with its upload and
\* its page image in place
C26_Witness ==
    /\ pc = "extract" /\ Len(reqs) = 2
    /\ reqs[1].filename = reqs[2].filename /\ IsPdf(reqs[1].filename)
    /\ reqs[2].pc = "done" /\ reqs[2].status = 200
    /\ reqs[1].pc = "pages"
    /\ Cardinality(files) = 2 /\ \A f \in files : f.by = 1

\* ------------------------------------------------------------------------
\* C27: merge of the pages
\* ------------------------------------------------------------------------
\* the value of the header field f on the first of the pages 1..n that has
\* one
FirstValue(ps, n, f) ==
    LET has == {m \in 1..n : ps[m][f] # None}
    IN IF has = {} THEN None ELSE ps[MinOf(has)][f]

\* the transactions of the pages 1..n, page after page
RECURSIVE PageTransactions(_, _)
PageTransactions(ps, n) ==
    IF n = 0 THEN <<>> ELSE PageTransactions(ps, n - 1) \o ps[n].transactions

\* C27: multi-page merge. In the generic branch the pages are read in page
\* order; after any number of pages each header field of the result is the
\* value of the first page read that has one, which no later page
\* replaces, and the transactions are those of the pages read, page after
\* page, none lost and none moved.
C27_MultiPageMerge ==
    \A r \in DOMAIN reqs :
        (reqs[r].routed = "generic" /\ reqs[r].status # 500 /\ reqs[r].j >= 1) =>
            /\ \A m \in 1..Len(reqs[r].image_paths) :
                  IsPdf(reqs[r].filename) =>
                      reqs[r].image_paths[m] = PagePath(temp_path(reqs[r].filename), m)
            /\ \A f \in {"banque", "compte", "titulaire", "periode"} :
                  reqs[r].final_data[f] = FirstValue(reqs[r].pages, reqs[r].j - 1, f)
            /\ reqs[r].final_data.transactions
                  = PageTransactions(reqs[r].pages, reqs[r].j - 1)

\* a PDF of two pages has been merged: the bank of the first page was kept
\* though the second has another, the account comes from the second page
C27_Witness ==
    /\ pc = "extract" /\ Len(reqs) = 1
    /\ reqs[1].pc = "done" /\ reqs[1].status = 200 /\ reqs[1].routed = "generic"
    /\ Len(reqs[1].pages) = 2
    /\ reqs[1].pages[1].banque = "A" /\ reqs[1].pages[2].banque = "B"
    /\ reqs[1].final_data.banque = "A" /\ reqs[1].final_data.compte = "C"
    /\ reqs[1].final_data.transactions = <<"t1", "t2", "t3">>

====
